---- MODULE Spec2Model ----
(***************************************************************************)
(* Model of the /chat handler of python_chatbot/refractored_bot.py: the    *)
(* session phase state machine, the strategy decision and the persistence  *)
(* of one Intervention row per session.                                    *)
(*                                                                         *)
(* A request is handled in steps that are separated by the points where    *)
(* the handler reads or commits the Intervention table.  Spec handles one  *)
(* request at a time, ConcSpec interleaves the steps of MaxInFlight        *)
(* requests (each request owns its own SQLAlchemy session).                *)
(***************************************************************************)
EXTENDS Integers, Sequences, FiniteSets, TLC

\* ------------------------------------------------------------------ bounds
MaxInFlight == 2
MaxRows == 1

Reqs == 1..MaxInFlight
Participants == {"p1"}

NULL == "NULL"
NoText == <<>>

\* ------------------------------------------------------- collaborator outcomes
\* What one call of a hosted model can do: answer, answer with text the
\* caller cannot parse, or raise.
EmotionOutcomes ==
    { [kind |-> "ok", value |-> "sadness"],
      [kind |-> "ok", value |-> "joy"],
      [kind |-> "unparseable", value |-> NULL],
      [kind |-> "raise", value |-> NULL] }

TriggerOutcomes ==
    { [kind |-> "ok", value |-> <<"relationship trigger">>],
      [kind |-> "unparseable", value |-> <<>>],
      [kind |-> "raise", value |-> <<>>] }

SubtypeOutcomes ==
    { [kind |-> "ok", value |-> "Agency Cognitive Change"],
      [kind |-> "ok", value |-> "Positive Cognitive Change"],
      [kind |-> "ok", value |-> "Positive"],
      [kind |-> "raise", value |-> NULL] }

\* The emotion call made again at the exits of phases 2a, 2b and 3.
ReclassifyOutcomes ==
    { [kind |-> "ok", value |-> "joy"],
      [kind |-> "unparseable", value |-> NULL],
      [kind |-> "raise", value |-> NULL] }

SummaryOutcomes == { "ok", "raise" }

\* ------------------------------------------------------------ pure functions

\* identify_emotion_plutchik: (emotion, confidence in percent, raised)
identify_emotion_plutchik(client, out) ==
    IF ~client THEN [raised |-> FALSE, emotion |-> "error_openai_not_init", confidence |-> 0]
    ELSE IF out.kind = "raise" THEN [raised |-> TRUE, emotion |-> NULL, confidence |-> 0]
    ELSE IF out.kind = "ok" THEN [raised |-> FALSE, emotion |-> out.value, confidence |-> 90]
    ELSE [raised |-> FALSE, emotion |-> "neutral", confidence |-> 50]

\* extract_trigger_types: the parsed list, [] when the text does not parse;
\* without a client the function returns the pair ("error_openai_not_init", 0.0).
extract_trigger_types(client, out) ==
    IF ~client THEN [raised |-> FALSE, triggers |-> <<"error_openai_not_init", "0.0">>, is_list |-> FALSE]
    ELSE IF out.kind = "raise" THEN [raised |-> TRUE, triggers |-> <<>>, is_list |-> TRUE]
    ELSE IF out.kind = "ok" THEN [raised |-> FALSE, triggers |-> out.value, is_list |-> TRUE]
    ELSE [raised |-> FALSE, triggers |-> <<>>, is_list |-> TRUE]

\* decide_reappraisal_subtype: the stripped text of the answer, whatever it is.
decide_reappraisal_subtype(client, out) ==
    IF ~client THEN [raised |-> FALSE, value |-> "error_openai_not_init"]
    ELSE IF out.kind = "raise" THEN [raised |-> TRUE, value |-> NULL]
    ELSE [raised |-> FALSE, value |-> out.value]

\* The keys of the strategies dictionary of decide_strategy.
StrategyNames ==
    { "Attentional Deployment", "Situation Modification", "Agency Cognitive Change",
      "Positive Cognitive Change", "Response Modulation", "Situation Selection" }

\* strategies[name]: the instruction body; two templates interpolate the emotion.
StrategyPrompt(name, primary_emotion) ==
    IF name \in {"Attentional Deployment", "Response Modulation"}
    THEN <<"strategy", name, primary_emotion>>
    ELSE <<"strategy", name>>

\* The emotion-to-category mapping of decide_strategy.
BaseCategory(primary_emotion) ==
    CASE primary_emotion \in {"rage", "anger", "annoyance"} -> "anger"
      [] primary_emotion \in {"vigilance", "anticipation", "interest"} -> "anticipation"
      [] primary_emotion \in {"ecstasy", "joy", "serenity"} -> "joy"
      [] primary_emotion \in {"admiration", "trust", "acceptance"} -> "trust"
      [] primary_emotion \in {"terror", "fear", "apprehension", "shame", "guilt"} -> "fear"
      [] primary_emotion \in {"amazement", "surprise", "distraction"} -> "surprise"
      [] primary_emotion \in {"grief", "sadness", "pensiveness"} -> "sadness"
      [] primary_emotion \in {"loathing", "disgust", "boredom"} -> "disgust"
      [] OTHER -> "neutral"

\* A decision that makes the reappraisal sub-call for every category.
CallsSubtypeAlways(base) == TRUE

\* Whether decide_strategy makes the reappraisal sub-call for this category.
CallsSubtype(base) == base \notin {"joy", "trust"}

\* A selection that starts every category with Attentional Deployment.
FirstStrategyAlwaysAttention(base) == "Attentional Deployment"

\* first, by category.
FirstStrategy(base) ==
    IF base = "disgust" THEN "Situation Modification" ELSE "Attentional Deployment"

\* strategies.get(second, strategies[second]) evaluates strategies[second]
\* first: a second strategy that is no key of the dictionary raises KeyError.
SecondLookupRaises(second) == second \notin StrategyNames

\* decide_strategy(primary_emotion, primary_trigger, chat_history), with the
\* outcome of the sub-call it may make.
decide_strategy(client, primary_emotion, subOut) ==
    LET base == BaseCategory(primary_emotion)
        sub == decide_reappraisal_subtype(client, subOut)
        first == FirstStrategy(base)
    IN  IF CallsSubtype(base) /\ sub.raised
        THEN [raised |-> TRUE, error |-> "decide_reappraisal_subtype",
              first |-> NULL, first_prompt |-> NoText,
              second |-> NULL, second_prompt |-> NoText]
        ELSE LET second == IF CallsSubtype(base) THEN sub.value ELSE "Response Modulation"
             IN  IF SecondLookupRaises(second)
                 THEN [raised |-> TRUE, error |-> "KeyError",
                       first |-> NULL, first_prompt |-> NoText,
                       second |-> NULL, second_prompt |-> NoText]
                 ELSE [raised |-> FALSE, error |-> NULL,
                       first |-> first,
                       first_prompt |-> StrategyPrompt(first, primary_emotion),
                       second |-> second,
                       second_prompt |-> StrategyPrompt(second, primary_emotion)]

\* context_builder: the recap of one phase, built from the five values it is
\* handed; a fixed error text when the Gemini client was never initialised.
context_builder(gclient, emotion, trigger, first, second, phase, out) ==
    IF ~gclient THEN [raised |-> FALSE, text |-> <<"Error: Gemini model not initialized.">>]
    ELSE IF out = "raise" THEN [raised |-> TRUE, text |-> NoText]
    ELSE [raised |-> FALSE, text |-> <<"summary", phase, emotion, trigger, first, second>>]

\* ", ".join(triggers) for a list, str(triggers) for anything else.
JoinTriggers(triggers, is_list) ==
    IF ~is_list THEN <<"str">> \o triggers
    ELSE IF triggers = <<>> THEN <<>>
    ELSE [i \in 1..(2 * Len(triggers) - 1) |->
            IF i % 2 = 1 THEN triggers[(i + 1) \div 2] ELSE ", "]

\* triggers[0] if triggers else "unknown"
PrimaryTrigger(triggers) == IF triggers = <<>> THEN "unknown" ELSE triggers[1]

\* The instruction blocks built during the Identification exit.
Phase2Prompt(emotion, trigger, first, first_prompt) ==
    <<"phase2a", emotion, trigger, first>> \o first_prompt

Phase2bPrompt(emotion, trigger, second, second_prompt) ==
    <<"phase2b", emotion, trigger, second>> \o second_prompt

\* The reflection block is a plain (not formatted) string literal: the text
\* keeps the placeholders {db_first_strat} and {db_second_strat} as written.
Phase3Prompt(first, second) ==
    <<"phase3", "{db_first_strat}", "{db_second_strat}">>

Ack2a == <<"You're doing great! Ready to get into the next strategy?">>
LostMyPlace == <<"I seem to have lost my place in our conversation. Could we try starting this section again?">>
CompletionErrorReply == <<"Sorry, I encountered an issue trying to process that.">>
NoClientReply == <<"Error: OpenAI client not initialized.">>

\* The notice the exit of phase 3 inserts into the transcript it stores.
session_end_system_prompt == <<"The session has now concluded. This chat will no longer provide therapeutic guidance.">>

\* The instructions of phase 1, put first in the request context while the
\* marker is "initial".
initial_system_prompt == <<"initial">>

\* One message of a chat history or of a completion request.
Msg(role, content) == [role |-> role, content |-> content]

\* data.get('history', []): what a client sends along, here nothing or a
\* history that carries a system message.
Histories ==
    { <<>>,
      << Msg("system", <<"client instructions">>), Msg("user", <<"earlier">>),
         Msg("assistant", <<"answer">>) >> }

\* data.get('message'): the command or any other text.
UserMessage(cmd) == IF cmd THEN <<"endphase()">> ELSE <<"hello">>

\* A returned transcript that lacks the reply of the turn.
TranscriptWithoutReply(q, reply) ==
    q.history \o <<Msg("user", UserMessage(q.cmd))>>

\* chat_history_to_send as returned: the client's history, the user
\* message, the reply as the assistant message.
chat_history_to_send(q, reply) ==
    q.history \o <<Msg("user", UserMessage(q.cmd))>> \o <<Msg("assistant", reply)>>

\* current_history_for_api before any splice: the initial instructions while
\* they are owed, the client's history, the user message.
current_history_for_api(q) ==
    (IF q.snap.insert_system_prompt = "initial"
     THEN <<Msg("system", initial_system_prompt)>> ELSE <<>>)
    \o q.history \o <<Msg("user", UserMessage(q.cmd))>>

HasSystem(ctx) == \E i \in 1..Len(ctx) : ctx[i].role = "system"

FirstSystem(ctx) ==
    CHOOSE i \in 1..Len(ctx) :
        ctx[i].role = "system" /\ \A j \in 1..(i - 1) : ctx[j].role # "system"

\* list.insert(0, {"role": "system", "content": block})
InsertFirst(ctx, block) == <<Msg("system", block)>> \o ctx

\* The splice of the 2a block and of the 3 block: insert(0, ...) in the loop
\* branch and after the loop alike.  Nothing is spliced for an empty block.
SpliceByInsert(ctx, block) ==
    IF block = NoText THEN ctx
    ELSE IF HasSystem(ctx) THEN InsertFirst(ctx, block)
    ELSE InsertFirst(ctx, block)

\* The splice of the 2b block: the first system message is replaced, and the
\* block is inserted at the front when there is none.
SpliceByReplace(ctx, block) ==
    IF block = NoText THEN ctx
    ELSE IF HasSystem(ctx) THEN [ctx EXCEPT ![FirstSystem(ctx)] = Msg("system", block)]
    ELSE InsertFirst(ctx, block)

\* The messages handed to chat.completions.create for a non-command message.
CompletionMessages(q) ==
    LET ctx == current_history_for_api(q)
        marker == q.snap.insert_system_prompt
    IN  CASE marker = "phase2a" -> SpliceByInsert(ctx, q.snap.phase2_prompt)
          [] marker = "phase2b" -> SpliceByReplace(ctx, q.snap.phase2b_prompt)
          [] marker = "phase3" -> SpliceByInsert(ctx, q.snap.phase3_prompt)
          [] OTHER -> ctx


\* ------------------------------------------------------- the command matcher
\* Texts are sequences of one-character strings.
break_sentence == <<"e", "n", "d", "p", "h", "a", "s", "e", "(", ")">>

\* The default of the threshold parameter, 0.7, in hundredths.
DefaultThreshold == 70

Whitespace == {" ", "\t", "\n", "\r"}

\* A strip() that leaves the text as it is.
StripNothing(s) == s

\* str.strip(): the text without its leading and trailing white space.
strip(s) ==
    LET inked == { i \in 1..Len(s) : s[i] \notin Whitespace }
    IN  IF inked = {} THEN <<>>
        ELSE SubSeq(s, CHOOSE i \in inked : \A j \in inked : i <= j,
                       CHOOSE i \in inked : \A j \in inked : i >= j)

UpperCase == <<"A", "B", "C", "D", "E", "F", "G", "H", "I", "J", "K", "L", "M",
               "N", "O", "P", "Q", "R", "S", "T", "U", "V", "W", "X", "Y", "Z">>
LowerCase == <<"a", "b", "c", "d", "e", "f", "g", "h", "i", "j", "k", "l", "m",
               "n", "o", "p", "q", "r", "s", "t", "u", "v", "w", "x", "y", "z">>

\* A lower() that leaves the text as it is.
LowerNothing(s) == s

\* str.lower(): every upper-case letter replaced by its lower-case letter.
lower(s) ==
    [ i \in 1..Len(s) |->
        IF \E k \in 1..Len(UpperCase) : UpperCase[k] = s[i]
        THEN LowerCase[CHOOSE k \in 1..Len(UpperCase) : UpperCase[k] = s[i]]
        ELSE s[i] ]

\* The length of the longest common run of a from i and b from j, within
\* a[..ahi] and b[..bhi].
CommonRun(a, b, i, j, ahi, bhi) ==
    LET most == IF ahi - i < bhi - j THEN ahi - i + 1 ELSE bhi - j + 1
        runs == { k \in 0..most : \A m \in 0..(k - 1) : a[i + m] = b[j + m] }
    IN  CHOOSE k \in runs : \A o \in runs : k >= o

\* SequenceMatcher.find_longest_match: the longest block a[i..] = b[j..]
\* within the two ranges; of the longest blocks the one that starts earliest
\* in a, and of those the one that starts earliest in b.  (No element is
\* junk, and the popularity heuristic needs a text of 200 or more.)
find_longest_match(a, b, alo, ahi, blo, bhi) ==
    LET starts == (alo..ahi) \X (blo..bhi)
        sizes == { CommonRun(a, b, st[1], st[2], ahi, bhi) : st \in starts }
        size == CHOOSE k \in sizes : \A o \in sizes : k >= o
        longest == { st \in starts : CommonRun(a, b, st[1], st[2], ahi, bhi) = size }
        i == CHOOSE x \in { st[1] : st \in longest } :
                 \A st \in longest : x <= st[1]
        j == CHOOSE y \in { st[2] : st \in { t \in longest : t[1] = i } } :
                 \A st \in { t \in longest : t[1] = i } : y <= st[2]
    IN  [i |-> i, j |-> j, size |-> size]

\* The sum of the sizes of get_matching_blocks(): the longest match, then
\* the matches to its left and to its right.
RECURSIVE matches(_, _, _, _, _, _)
matches(a, b, alo, ahi, blo, bhi) ==
    IF alo > ahi \/ blo > bhi THEN 0
    ELSE LET m == find_longest_match(a, b, alo, ahi, blo, bhi)
         IN  IF m.size = 0 THEN 0
             ELSE m.size
                  + matches(a, b, alo, m.i - 1, blo, m.j - 1)
                  + matches(a, b, m.i + m.size, ahi, m.j + m.size, bhi)

\* SequenceMatcher(None, a, b).ratio() = 2.0 * matches / (len(a) + len(b)),
\* and 1.0 for two empty texts; kept as the two integers of the quotient.
ratio(a, b) ==
    IF Len(a) + Len(b) = 0 THEN [twice |-> 2, length |-> 2]
    ELSE [twice |-> 2 * matches(a, b, 1, Len(a), 1, Len(b)), length |-> Len(a) + Len(b)]

\* is_endphase_command(user_input, threshold): threshold in hundredths.
is_endphase_command(user_input, threshold) ==
    LET t == lower(strip(user_input))
        r == ratio(t, break_sentence)
    IN  r.twice * 100 >= threshold * r.length

\* ------------------------------------------------------ the reply in chunks
LongReplyLines == 3
LongReplyChars == 200

Newline == <<"\n">>
BlankLine == <<"\n", "\n">>

\* Where sep occurs in s.
Occurrences(s, sep) ==
    { i \in 1..(Len(s) - Len(sep) + 1) : SubSeq(s, i, i + Len(sep) - 1) = sep }

\* sep in s
Contains(s, sep) == Occurrences(s, sep) # {}

\* str.split(sep): the pieces between the occurrences of sep, found from
\* the left and not overlapping.
RECURSIVE split(_, _)
split(s, sep) ==
    IF ~Contains(s, sep) THEN <<s>>
    ELSE LET i == CHOOSE x \in Occurrences(s, sep) : \A y \in Occurrences(s, sep) : x <= y
         IN  <<SubSeq(s, 1, i - 1)>> \o split(SubSeq(s, i + Len(sep), Len(s)), sep)

\* [chunk.strip() for chunk in chunks if chunk.strip()]
StrippedChunks(chunks) ==
    LET kept == SelectSeq(chunks, LAMBDA chunk : strip(chunk) # <<>>)
    IN  [k \in 1..Len(kept) |-> strip(kept[k])]

\* A reply returned in one piece whatever it holds.
WholeReply(bot_reply) == <<bot_reply>>

\* message_chunks: the reply split at blank lines; else, when it has more
\* than three lines or more than 200 characters, at line ends; the reply
\* itself when that leaves nothing.
message_chunks(bot_reply) ==
    LET chunks == IF Contains(bot_reply, BlankLine)
                  THEN StrippedChunks(split(bot_reply, BlankLine))
                  ELSE IF \/ Len(split(bot_reply, Newline)) > LongReplyLines
                          \/ Len(bot_reply) > LongReplyChars
                  THEN StrippedChunks(split(bot_reply, Newline))
                  ELSE <<>>
    IN  IF chunks = <<>> THEN <<bot_reply>> ELSE chunks

\* What the continue path makes of the text of a completion: the stripped
\* reply goes into the transcript whole and into the response in chunks.
reply_of(content) ==
    LET bot_reply == strip(content)
    IN  [ bot_response |-> message_chunks(bot_reply),
          assistant |-> Msg("assistant", bot_reply) ]

\* ------------------------------------------------- the biometric reducers
\* A feature value: np.nan, or the named statistic of a series.
NaN == [defined |-> FALSE, stat |-> "nan"]
Value(stat) == [defined |-> TRUE, stat |-> stat]

\* A series of a request: data.get(...) gives None when the key is absent.
Absent == [present |-> FALSE, samples |-> <<>>]
Given(samples) == [present |-> TRUE, samples |-> samples]

\* not series: None and the empty list.
Falsy(series) == ~series.present \/ series.samples = <<>>

RECURSIVE Sum(_)
Sum(samples) == IF samples = <<>> THEN 0 ELSE Head(samples) + Sum(Tail(samples))

HrvNames == <<"rmssd", "sdnn", "pnn50", "ibi_mean", "ibi_std", "hr_mean">>
SkinTempNames == <<"skin_temp_mean", "skin_temp_std", "skin_temp_min", "skin_temp_max">>
AccNames ==
    <<"acc_x_mean", "acc_y_mean", "acc_z_mean", "acc_x_std", "acc_y_std", "acc_z_std",
      "acc_x_min", "acc_y_min", "acc_z_min", "acc_x_max", "acc_y_max", "acc_z_max",
      "acc_vm_mean", "acc_vm_std", "acc_vm_min", "acc_vm_max",
      "acc_x_energy", "acc_y_energy", "acc_z_energy">>

Names(order) == { order[k] : k \in 1..Len(order) }

\* A reducer of the IBI series that computes on whatever it is given: the
\* statistics of an empty or one-sample series are not defined and the
\* call raises or warns instead of returning the record of np.nan.
HrvWithoutGuard(ibi_series) ==
    [ name \in Names(HrvNames) |->
        IF name = "hr_mean" /\ Sum(ibi_series.samples) <= 0 THEN NaN
        ELSE Value(name) ]

\* calculate_hrv_features: np.nan six times for a series that is absent,
\* empty or of one sample; hr_mean is np.nan when the mean IBI is not
\* positive.
calculate_hrv_features(ibi_series) ==
    IF Falsy(ibi_series) \/ Len(ibi_series.samples) < 2
    THEN [ name \in Names(HrvNames) |-> NaN ]
    ELSE [ name \in Names(HrvNames) |->
             IF name = "hr_mean" /\ Sum(ibi_series.samples) <= 0 THEN NaN
             ELSE Value(name) ]

calculate_skin_temp_features(skin_temp_series) ==
    IF Falsy(skin_temp_series)
    THEN [ name \in Names(SkinTempNames) |-> NaN ]
    ELSE [ name \in Names(SkinTempNames) |-> Value(name) ]

calculate_accelerometer_features(accelerometer_series) ==
    IF Falsy(accelerometer_series)
    THEN [ name \in Names(AccNames) |-> NaN ]
    ELSE [ name \in Names(AccNames) |-> Value(name) ]

\* dict.get(name, np.nan)
Get(features, name) == IF name \in DOMAIN features THEN features[name] ELSE NaN

\* feature_vector_list: the HRV features, the temperature features, the
\* accelerometer features, each in its listed order.
feature_vector_list(hrv_features, skin_temp_features, acc_features) ==
    [ k \in 1..Len(HrvNames) |-> Get(hrv_features, HrvNames[k]) ]
    \o [ k \in 1..Len(SkinTempNames) |-> Get(skin_temp_features, SkinTempNames[k]) ]
    \o [ k \in 1..Len(AccNames) |-> Get(acc_features, AccNames[k]) ]

\* The width the regression model was trained on.
FeatureCount == 29

\* process_sensor_data: 500 without the regression model, 400 when a series
\* is absent or empty, 500 for a vector of another width, else the
\* prediction made from the vector with np.nan replaced by 0.
process_sensor_data(model_loaded, ibi_series, skin_temp_series, acc_series) ==
    IF ~model_loaded THEN [status |-> 500, vector |-> <<>>]
    ELSE IF Falsy(ibi_series) \/ Falsy(skin_temp_series) \/ Falsy(acc_series)
    THEN [status |-> 400, vector |-> <<>>]
    ELSE LET vector == feature_vector_list(calculate_hrv_features(ibi_series),
                                           calculate_skin_temp_features(skin_temp_series),
                                           calculate_accelerometer_features(acc_series))
         IN  IF Len(vector) # FeatureCount THEN [status |-> 500, vector |-> vector]
             ELSE [status |-> 200, vector |-> vector]

\* ------------------------------------------------------------------- state
VARIABLES
    interventions,  \* the Intervention table: a sequence of rows, a row's index is its identity
    req,            \* per in-flight request: its position in the handler and its locals
    last,           \* the response most recently returned by /chat
    openai_client,  \* whether the module-level OpenAI client was initialised
    gemini_client,  \* whether the module-level Gemini client was initialised
    serverUp,       \* FALSE once the handler has shut the server down
    outbound,       \* what the step just taken asked of the hosted models
    probe           \* one application of a function of the module: its arguments and result

vars == <<interventions, req, last, openai_client, gemini_client, serverUp, outbound, probe>>

\* No function is being applied on its own.
NoProbe == [fn |-> "none"]

\* The functions a step called, the messages it handed to the completion
\* and how the completion call ended ("none" when it was not made).
Calls(names, messages) == [calls |-> names, messages |-> messages, completion |-> "none"]
NoCalls == Calls({}, <<>>)

\* A row of the Intervention table, as written by Intervention(...) and the exits.
NewRow(pid, iid, phase, marker) ==
    [ participant_id |-> pid,
      intervention_id |-> iid,
      conversation_start_time |-> "set",
      current_phase |-> phase,
      insert_system_prompt |-> marker,
      summary_phase1 |-> NoText,
      summary_phase2a |-> NoText,
      summary_phase2b |-> NoText,
      summary_phase3 |-> NoText,
      emotion_before |-> NULL,
      triggers |-> NoText,
      primary_trigger |-> NULL,
      first_strategy |-> NULL,
      second_strategy |-> NULL,
      emotion_after_phase2a |-> NULL,
      emotion_after_phase2b |-> NULL,
      emotion_after_phase3 |-> NULL,
      phase2_prompt |-> NoText,
      phase2b_prompt |-> NoText,
      phase3_prompt |-> NoText,
      phase2a_start_time |-> NULL,
      phase2b_start_time |-> NULL,
      phase3_start_time |-> NULL,
      conversation_end_time |-> NULL,
      conversation_duration_seconds |-> NULL,
      chat_transcript |-> NULL,
      avg_user_input_length_words |-> NULL ]

NoRow == NewRow(NULL, 0, NULL, NULL)

\* Column defaults of current_phase and insert_system_prompt, used when the
\* recovery path builds a row without naming them.
DefaultPhase == "1"
DefaultMarker == "initial"

\* query(Intervention).filter_by(participant_id, intervention_id).first():
\* the index of the first matching row, 0 when there is none.
FirstMatch(tbl, pid, iid) ==
    LET hits == { i \in 1..Len(tbl) :
                    tbl[i].participant_id = pid /\ tbl[i].intervention_id = iid }
    IN  IF hits = {} THEN 0 ELSE CHOOSE i \in hits : \A j \in hits : i <= j

\* The number of sessions of one participant, instead of the highest id.
CountId(tbl, pid) ==
    Cardinality({ j \in 1..Len(tbl) : tbl[j].participant_id = pid })

\* func.max(Intervention.intervention_id) for one participant, 0 for None.
LastId(tbl, pid) ==
    LET ids == { tbl[i].intervention_id : i \in { j \in 1..Len(tbl) : tbl[j].participant_id = pid } }
    IN  IF ids = {} THEN 0 ELSE CHOOSE m \in ids : \A n \in ids : n <= m

\* The UPDATE a flush issues for one loaded object: the attributes that were
\* set to a value other than the one loaded.  After a commit or a rollback the
\* object is expired, and every attribute set since is written.
Flush(row, snap, changes, expired) ==
    [ f \in DOMAIN row |->
        IF f \in DOMAIN changes /\ (expired \/ changes[f] # snap[f])
        THEN changes[f] ELSE row[f] ]

\* A commit whose failure leaves the flushed changes in the table.
CommitWithoutRollback(tbl, idx, snap, changes, expired, ok) ==
    [tbl EXCEPT ![idx] = Flush(tbl[idx], snap, changes, expired)]

\* db_session.commit() of the staged changes of row idx; a failed commit is
\* followed by db_session.rollback() (or by close()) and stores nothing.
Commit(tbl, idx, snap, changes, expired, ok) ==
    IF ok THEN [tbl EXCEPT ![idx] = Flush(tbl[idx], snap, changes, expired)]
    ELSE tbl

\* An exit of phase 2a that writes the phase after the next one.
ExitTargetSkipping(phase) ==
    CASE phase = "1" -> "2a"
      [] phase = "2a" -> "3"
      [] phase = "2b" -> "3"
      [] phase = "3" -> "4"

\* current_phase written by the exit of each phase.
ExitTarget(phase) ==
    CASE phase = "1" -> "2a"
      [] phase = "2a" -> "2b"
      [] phase = "2b" -> "3"
      [] phase = "3" -> "4"

IdleReq ==
    [ pc |-> "idle", participant_id |-> NULL, intervention_id |-> 0, cmd |-> FALSE,
      history |-> <<>>, recovery |-> FALSE, idx |-> 0, snap |-> NoRow,
      reply |-> NoText, p2 |-> NoText, p2b |-> NoText, commit_ok |-> FALSE ]

\* One response of /chat: the status, which key carries the text ("error",
\* "bot_response", "reply"), the text, the "details" of a 500 (the exception),
\* and what the request was: its key, whether it was a command, the phase
\* whose exit it ran and how the commit of that exit ended.
Response(status, body, reply, q, exited, committed) ==
    [ status |-> status, body |-> body, reply |-> reply, details |-> NULL, cmd |-> q.cmd,
      history |-> IF body \in {"bot_response", "reply"}
                  THEN chat_history_to_send(q, reply) ELSE <<>>,
      participant_id |-> q.participant_id, intervention_id |-> q.intervention_id,
      exited |-> exited, committed |-> committed ]

NoResponse ==
    [ status |-> 0, body |-> NULL, reply |-> NoText, details |-> NULL, cmd |-> FALSE,
      history |-> <<>>, participant_id |-> NULL, intervention_id |-> 0, exited |-> NULL, committed |-> NULL ]

\* The outer except of chat(): rollback, then the 500 response.
Unhandled(r, exited, details) ==
    /\ req' = [req EXCEPT ![r] = IdleReq]
    /\ last' = [Response(500, "error", NoText, req[r], exited, NULL) EXCEPT !.details = details]

Init ==
    /\ interventions = <<>>
    /\ req = [r \in Reqs |-> IdleReq]
    /\ last = NoResponse
    /\ \E b \in BOOLEAN : openai_client = b /\ gemini_client = b
    /\ serverUp = TRUE
    /\ outbound = NoCalls
    /\ probe = NoProbe


\* ------------------------------------------------------------ environments
\* What the collaborators, the store and the server environment may do in a
\* run: every outcome (AnyOutcome), or only the successful ones (NoFailure).
AnyOutcome ==
    [ trigger |-> TriggerOutcomes, emotion |-> EmotionOutcomes, subtype |-> SubtypeOutcomes,
      summary |-> SummaryOutcomes, reclassify |-> ReclassifyOutcomes,
      completion |-> {"ok", "raise"}, commit |-> BOOLEAN,
      aware |-> BOOLEAN, shutdown_func |-> BOOLEAN, rows |-> MaxRows ]

NoFailure ==
    [ trigger |-> { o \in TriggerOutcomes : o.kind = "ok" },
      emotion |-> { o \in EmotionOutcomes : o.kind = "ok" /\ o.value = "sadness" },
      subtype |-> { o \in SubtypeOutcomes : o.kind = "ok" /\ o.value \in StrategyNames },
      summary |-> {"ok"},
      reclassify |-> { o \in ReclassifyOutcomes : o.kind = "ok" },
      completion |-> {"ok"}, commit |-> {TRUE},
      aware |-> {FALSE}, shutdown_func |-> {FALSE}, rows |-> MaxRows ]

\* ----------------------------------------------------------------- actions
Reply(r, resp) ==
    /\ req' = [req EXCEPT ![r] = IdleReq]
    /\ last' = resp

\* A validation that queries the classifier before it answers 400.
RejectAfterCall(r) ==
    /\ serverUp
    /\ req[r].pc = "idle"
    /\ \E pid \in Participants \cup {NULL}, is_new \in BOOLEAN, cmd \in BOOLEAN :
        /\ pid = NULL \/ ~is_new
        /\ last' = Response(400, "error", NoText,
                            [IdleReq EXCEPT !.participant_id = pid, !.cmd = cmd], NULL, NULL)
    /\ outbound' = Calls({"chat.completions.create"}, <<>>)
    /\ UNCHANGED <<interventions, req, openai_client, gemini_client, serverUp, probe>>

\* A request without participant_id, or an ongoing-session request without
\* intervention_id: 400, nothing read or written.
Reject(r) ==
    /\ serverUp
    /\ req[r].pc = "idle"
    /\ \E pid \in Participants \cup {NULL}, is_new \in BOOLEAN, cmd \in BOOLEAN :
        /\ pid = NULL \/ ~is_new
        /\ last' = Response(400, "error", NoText,
                            [IdleReq EXCEPT !.participant_id = pid, !.cmd = cmd], NULL, NULL)
    /\ outbound' = NoCalls
    /\ UNCHANGED <<interventions, req, openai_client, gemini_client, serverUp, probe>>

\* is_new_session: the next intervention id is read from the table.
BeginNewSession(r, E) ==
    /\ serverUp
    /\ req[r].pc = "idle"
    /\ \E pid \in Participants, cmd \in BOOLEAN, hist \in Histories :
        /\ LastId(interventions, pid) + 1 <= E.rows
        /\ req' = [req EXCEPT ![r] =
                     [IdleReq EXCEPT !.pc = "create", !.participant_id = pid, !.cmd = cmd,
                                     !.history = hist,
                                     !.intervention_id = LastId(interventions, pid) + 1]]
    /\ outbound' = NoCalls
    /\ UNCHANGED <<interventions, last, openai_client, gemini_client, serverUp, probe>>

\* An ongoing session whose record exists: the record is loaded.
BeginOngoing(r, E) ==
    /\ serverUp
    /\ req[r].pc = "idle"
    /\ \E pid \in Participants, iid \in 1..E.rows, cmd \in BOOLEAN, hist \in Histories :
        LET i == FirstMatch(interventions, pid, iid)
        IN  /\ i # 0
            /\ req' = [req EXCEPT ![r] =
                         [IdleReq EXCEPT !.pc = "loaded", !.participant_id = pid, !.cmd = cmd,
                                         !.history = hist,
                                         !.intervention_id = iid, !.idx = i,
                                         !.snap = interventions[i]]]
    /\ outbound' = NoCalls
    /\ UNCHANGED <<interventions, last, openai_client, gemini_client, serverUp, probe>>

\* An ongoing session whose record is missing: the record will be created.
BeginMissing(r, E) ==
    /\ serverUp
    /\ req[r].pc = "idle"
    /\ \E pid \in Participants, iid \in 1..E.rows, cmd \in BOOLEAN, hist \in Histories :
        /\ FirstMatch(interventions, pid, iid) = 0
        /\ req' = [req EXCEPT ![r] =
                     [IdleReq EXCEPT !.pc = "create", !.participant_id = pid, !.cmd = cmd,
                                     !.history = hist,
                                     !.intervention_id = iid, !.recovery = TRUE]]
    /\ outbound' = NoCalls
    /\ UNCHANGED <<interventions, last, openai_client, gemini_client, serverUp, probe>>

\* A handler that answers a request for a missing record with an error.
CreateRecordRejecting(r, E) ==
    /\ req[r].pc = "create"
    /\ Unhandled(r, NULL, "no record")
    /\ outbound' = NoCalls
    /\ UNCHANGED <<interventions, openai_client, gemini_client, serverUp, probe>>

\* A store that takes a second record under a key it already holds.
KeyNeverTaken(tbl, pid, iid) == FALSE

\* The session store is keyed by (participant_id, intervention_id): the
\* commit of a new record fails when its key is already stored.
KeyTaken(tbl, pid, iid) == FirstMatch(tbl, pid, iid) # 0

\* db_session.add(new_intervention); db_session.commit()
CreateRecord(r, E) ==
    /\ req[r].pc = "create"
    /\ \/ Len(interventions) < E.rows
       \/ KeyTaken(interventions, req[r].participant_id, req[r].intervention_id)
    /\ \E stored \in E.commit :
        LET q == req[r]
            row == IF q.recovery
                   THEN NewRow(q.participant_id, q.intervention_id, DefaultPhase, DefaultMarker)
                   ELSE NewRow(q.participant_id, q.intervention_id, "1", "initial")
            ok == stored /\ ~KeyTaken(interventions, q.participant_id, q.intervention_id)
        IN  IF ok
            THEN /\ interventions' = Append(interventions, row)
                 /\ req' = [req EXCEPT ![r].pc = "created"]
                 /\ UNCHANGED last
            ELSE /\ Unhandled(r, NULL, "commit")
                 /\ UNCHANGED interventions
    /\ outbound' = NoCalls
    /\ UNCHANGED <<openai_client, gemini_client, serverUp, probe>>

\* The query after the creation commit loads the record.
Load(r) ==
    /\ req[r].pc = "created"
    /\ LET q == req[r]
           i == FirstMatch(interventions, q.participant_id, q.intervention_id)
       IN  req' = [req EXCEPT ![r] = [q EXCEPT !.pc = "loaded", !.idx = i,
                                                !.snap = interventions[i]]]
    /\ outbound' = NoCalls
    /\ UNCHANGED <<interventions, last, openai_client, gemini_client, serverUp, probe>>

\* The attributes the Identification exit sets before its first commit.
Phase1Changes(summary1, primary_emotion, t, primary_trigger, first_strat, second_strat) ==
    [ summary_phase1 |-> summary1,
      emotion_before |-> primary_emotion,
      triggers |-> JoinTriggers(t.triggers, t.is_list),
      primary_trigger |-> primary_trigger,
      first_strategy |-> first_strat,
      second_strategy |-> second_strat,
      phase2a_start_time |-> "set",
      insert_system_prompt |-> "phase2a",
      current_phase |-> ExitTarget("1") ]

\* The functions the Identification exit has called when it ends or raises.
Phase1Calls(t, e, d) ==
    IF t.raised THEN {"extract_trigger_types"}
    ELSE IF e.raised THEN {"extract_trigger_types", "identify_emotion_plutchik"}
    ELSE {"extract_trigger_types", "identify_emotion_plutchik", "decide_strategy"}
         \cup (IF CallsSubtype(BaseCategory(e.emotion))
               THEN {"decide_reappraisal_subtype"} ELSE {})
         \cup (IF d.raised THEN {} ELSE {"context_builder"})

\* The functions the exits of phases 2a, 2b and 3 have called.
LaterExitCalls(s) ==
    IF s.raised THEN {"context_builder"}
    ELSE {"context_builder", "identify_emotion_plutchik"}

\* endphase() in phase 1: classify, decide, summarise, first commit.
ExitPhase1(r, E) ==
    /\ req[r].pc = "loaded" /\ req[r].cmd /\ req[r].snap.current_phase = "1"
    /\ \E tOut \in E.trigger, eOut \in E.emotion, sOut \in E.subtype,
          mOut \in E.summary, ok \in E.commit :
        LET q == req[r]
            t == extract_trigger_types(openai_client, tOut)
            primary_trigger == PrimaryTrigger(t.triggers)
            e == identify_emotion_plutchik(openai_client, eOut)
            d == decide_strategy(openai_client, e.emotion, sOut)
            s == context_builder(gemini_client, e.emotion, primary_trigger,
                                 d.first, d.second, "1", mOut)
        IN  /\ IF t.raised \/ e.raised \/ d.raised \/ s.raised
               THEN /\ Unhandled(r, "1",
                                 IF t.raised THEN "extract_trigger_types"
                                 ELSE IF e.raised THEN "identify_emotion_plutchik"
                                 ELSE IF d.raised THEN d.error
                                 ELSE "context_builder")
                    /\ UNCHANGED interventions
               ELSE /\ interventions' =
                           Commit(interventions, q.idx, q.snap,
                                  Phase1Changes(s.text, e.emotion, t, primary_trigger,
                                                d.first, d.second),
                                  FALSE, ok)
                    /\ req' = [req EXCEPT ![r] =
                                 [q EXCEPT !.pc = "p1_prompts", !.reply = s.text, !.commit_ok = ok,
                                           !.p2 = Phase2Prompt(e.emotion, primary_trigger,
                                                               d.first, d.first_prompt),
                                           !.p2b = Phase2bPrompt(e.emotion, primary_trigger,
                                                                 d.second, d.second_prompt)]]
                    /\ UNCHANGED last
            /\ outbound' = Calls(Phase1Calls(t, e, d), <<>>)
    /\ UNCHANGED <<openai_client, gemini_client, serverUp, probe>>

\* endphase() in phase 1, second commit: the two instruction blocks are stored
\* and the summary is returned.
StorePhase2Prompts(r, E) ==
    /\ req[r].pc = "p1_prompts"
    /\ \E ok \in E.commit :
        LET q == req[r]
        IN  /\ interventions' =
                  Commit(interventions, q.idx, q.snap,
                         [phase2_prompt |-> q.p2, phase2b_prompt |-> q.p2b], TRUE, ok)
            /\ Reply(r, Response(200, "bot_response", q.reply, q, "1",
                                 IF q.commit_ok THEN "ok" ELSE "failed"))
    /\ outbound' = NoCalls
    /\ UNCHANGED <<openai_client, gemini_client, serverUp, probe>>

\* An exit of phase 2a that stores its re-classified emotion over the one
\* found at the exit of phase 1.
Phase2aChangesReclassifying(summary2a, emotion_after) ==
    [ summary_phase2a |-> summary2a,
      emotion_before |-> emotion_after,
      emotion_after_phase2a |-> emotion_after,
      phase2b_start_time |-> "set",
      insert_system_prompt |-> "phase2b",
      current_phase |-> "2b" ]

\* An exit of phase 2a that leaves the marker of phase 2a in place.
Phase2aChangesKeepingMarker(summary2a, emotion_after) ==
    [ summary_phase2a |-> summary2a,
      emotion_after_phase2a |-> emotion_after,
      phase2b_start_time |-> "set",
      insert_system_prompt |-> "phase2a",
      current_phase |-> "2b" ]

\* The attributes the exit of phase 2a sets before its commit.
Phase2aChanges(summary2a, emotion_after) ==
    [ summary_phase2a |-> summary2a,
      emotion_after_phase2a |-> emotion_after,
      phase2b_start_time |-> "set",
      insert_system_prompt |-> "phase2b",
      current_phase |-> ExitTarget("2a") ]

\* endphase() in phase 2a.
ExitPhase2a(r, E) ==
    /\ req[r].pc = "loaded" /\ req[r].cmd /\ req[r].snap.current_phase = "2a"
    /\ \E eOut \in E.reclassify, mOut \in E.summary, ok \in E.commit :
        LET q == req[r]
            s == context_builder(gemini_client, q.snap.emotion_before, q.snap.primary_trigger,
                                 q.snap.first_strategy, q.snap.second_strategy, "2a", mOut)
            e == identify_emotion_plutchik(openai_client, eOut)
        IN  /\ IF s.raised \/ e.raised
               THEN /\ Unhandled(r, "2a", IF s.raised THEN "context_builder"
                                            ELSE "identify_emotion_plutchik")
                    /\ UNCHANGED interventions
               ELSE /\ interventions' = Commit(interventions, q.idx, q.snap,
                                               Phase2aChanges(s.text, e.emotion), FALSE, ok)
                    /\ Reply(r, Response(200, "bot_response", Ack2a, q, "2a",
                                         IF ok THEN "ok" ELSE "failed"))
            /\ outbound' = Calls(LaterExitCalls(s), <<>>)
    /\ UNCHANGED <<openai_client, gemini_client, serverUp, probe>>

Phase2bChanges(summary2b, emotion_after, first_strat, second_strat) ==
    [ phase3_start_time |-> "set",
      summary_phase2b |-> summary2b,
      phase3_prompt |-> Phase3Prompt(first_strat, second_strat),
      insert_system_prompt |-> "phase3",
      current_phase |-> ExitTarget("2b"),
      emotion_after_phase2b |-> emotion_after ]

\* endphase() in phase 2b.
ExitPhase2b(r, E) ==
    /\ req[r].pc = "loaded" /\ req[r].cmd /\ req[r].snap.current_phase = "2b"
    /\ \E eOut \in E.reclassify, mOut \in E.summary, ok \in E.commit :
        LET q == req[r]
            s == context_builder(gemini_client, q.snap.emotion_before, q.snap.primary_trigger,
                                 q.snap.first_strategy, q.snap.second_strategy, "2b", mOut)
            e == identify_emotion_plutchik(openai_client, eOut)
        IN  /\ IF s.raised \/ e.raised
               THEN /\ Unhandled(r, "2b", IF s.raised THEN "context_builder"
                                            ELSE "identify_emotion_plutchik")
                    /\ UNCHANGED interventions
               ELSE /\ interventions' =
                           Commit(interventions, q.idx, q.snap,
                                  Phase2bChanges(s.text, e.emotion, q.snap.first_strategy,
                                                 q.snap.second_strategy),
                                  FALSE, ok)
                    /\ Reply(r, Response(200, "bot_response", s.text, q, "2b",
                                         IF ok THEN "ok" ELSE "failed"))
            /\ outbound' = Calls(LaterExitCalls(s), <<>>)
    /\ UNCHANGED <<openai_client, gemini_client, serverUp, probe>>

Phase3Changes(summary3, emotion_after, start_time) ==
    [ summary_phase3 |-> summary3,
      emotion_after_phase3 |-> emotion_after,
      current_phase |-> ExitTarget("3"),
      conversation_end_time |-> "set",
      conversation_duration_seconds |-> IF start_time # NULL THEN "set" ELSE NULL,
      chat_transcript |-> "set",
      avg_user_input_length_words |-> "set" ]

\* endphase() in phase 3.  datetime.now() is naive: the subtraction raises
\* when the stored start time comes back timezone-aware.  After the commit the
\* handler asks werkzeug to shut the server down and raises when it cannot.
ExitPhase3(r, E) ==
    /\ req[r].pc = "loaded" /\ req[r].cmd /\ req[r].snap.current_phase = "3"
    /\ \E eOut \in E.reclassify, mOut \in E.summary, ok \in E.commit,
          aware \in E.aware, shutdown_func \in E.shutdown_func :
        LET q == req[r]
            s == context_builder(gemini_client, q.snap.emotion_before, q.snap.primary_trigger,
                                 q.snap.first_strategy, q.snap.second_strategy, "3", mOut)
            e == identify_emotion_plutchik(openai_client, eOut)
        IN  /\ IF s.raised \/ e.raised \/ (q.snap.conversation_start_time # NULL /\ aware)
               THEN /\ Unhandled(r, "3", IF s.raised THEN "context_builder"
                                           ELSE IF e.raised THEN "identify_emotion_plutchik"
                                           ELSE "TypeError")
                    /\ UNCHANGED <<interventions, serverUp>>
               ELSE /\ interventions' =
                           Commit(interventions, q.idx, q.snap,
                                  Phase3Changes(s.text, e.emotion, q.snap.conversation_start_time),
                                  FALSE, ok)
                    /\ IF shutdown_func
                       THEN /\ Reply(r, Response(200, "text", <<"Server shutting down...">>, q, "3",
                                                 IF ok THEN "ok" ELSE "failed"))
                            /\ serverUp' = FALSE
                       ELSE /\ Reply(r, [Response(500, "error", NoText, q, "3",
                                                  IF ok THEN "ok" ELSE "failed")
                                           EXCEPT !.details = "RuntimeError"])
                            /\ UNCHANGED serverUp
            /\ outbound' = Calls(LaterExitCalls(s), <<>>)
    /\ UNCHANGED <<openai_client, gemini_client, probe>>

\* A handler that lets an unknown phase value escape as an exception.
ExitUnknownRaising(r) ==
    /\ req[r].pc = "loaded" /\ req[r].cmd
    /\ req[r].snap.current_phase \notin {"1", "2a", "2b", "3"}
    /\ Unhandled(r, NULL, "unknown phase")
    /\ outbound' = NoCalls
    /\ UNCHANGED <<interventions, openai_client, gemini_client, serverUp, probe>>

\* endphase() in any other phase value.
ExitUnknown(r) ==
    /\ req[r].pc = "loaded" /\ req[r].cmd
    /\ req[r].snap.current_phase \notin {"1", "2a", "2b", "3"}
    /\ Reply(r, Response(200, "bot_response", LostMyPlace, req[r], NULL, NULL))
    /\ outbound' = NoCalls
    /\ UNCHANGED <<interventions, openai_client, gemini_client, serverUp, probe>>

\* A non-command message without an OpenAI client.
NoClient(r) ==
    /\ req[r].pc = "loaded" /\ ~req[r].cmd /\ ~openai_client
    /\ Reply(r, Response(500, "bot_response", NoClientReply, req[r], NULL, NULL))
    /\ outbound' = NoCalls
    /\ UNCHANGED <<interventions, openai_client, gemini_client, serverUp, probe>>

\* A continue path that also moves the session to the phase its marker names.
ContinueChangesAdvancing(snap) ==
    IF snap.insert_system_prompt \in {"initial", "phase2a", "phase3"}
    THEN [insert_system_prompt |-> snap.insert_system_prompt,
          current_phase |-> IF snap.insert_system_prompt = "phase2a" THEN "2b" ELSE "2a"]
    ELSE [none |-> NULL]

\* What the continue path sets on the record: the marker it has read, for
\* the markers phase2a and phase3 (and initial, before the command test).
ContinueChanges(snap) ==
    IF snap.insert_system_prompt \in {"initial", "phase2a", "phase3"}
    THEN [insert_system_prompt |-> snap.insert_system_prompt]
    ELSE [none |-> NULL]

\* A non-command message: the owed instruction block is spliced into the
\* request context and the completion is asked for a reply.
Continue(r, E) ==
    /\ req[r].pc = "loaded" /\ ~req[r].cmd /\ openai_client
    /\ \E cOut \in E.completion, ok \in E.commit :
        LET q == req[r]
        IN  /\ interventions' = Commit(interventions, q.idx, q.snap,
                                       ContinueChanges(q.snap), FALSE, ok)
            /\ IF cOut = "ok"
               THEN Reply(r, Response(200, "bot_response", <<"completion">>, q, NULL, NULL))
               ELSE Reply(r, Response(200, "reply", CompletionErrorReply, q, NULL, NULL))
            /\ outbound' = [Calls({"chat.completions.create"}, CompletionMessages(q))
                               EXCEPT !.completion = cOut]
    /\ UNCHANGED <<openai_client, gemini_client, serverUp, probe>>

\* One step of the handler for request r.
Step(r, E) ==
    \/ Reject(r)
    \/ BeginNewSession(r, E)
    \/ BeginOngoing(r, E)
    \/ BeginMissing(r, E)
    \/ CreateRecord(r, E)
    \/ Load(r)
    \/ ExitPhase1(r, E)
    \/ StorePhase2Prompts(r, E)
    \/ ExitPhase2a(r, E)
    \/ ExitPhase2b(r, E)
    \/ ExitPhase3(r, E)
    \/ ExitUnknown(r)
    \/ NoClient(r)
    \/ Continue(r, E)

\* No other request is in flight.
Alone(r) == \A o \in Reqs \ {r} : req[o].pc = "idle"

\* Requests handled one at a time.
Next ==
    \/ \E r \in Reqs : Alone(r) /\ Reject(r)
    \/ \E r \in Reqs : Alone(r) /\ BeginNewSession(r, AnyOutcome)
    \/ \E r \in Reqs : Alone(r) /\ BeginOngoing(r, AnyOutcome)
    \/ \E r \in Reqs : Alone(r) /\ BeginMissing(r, AnyOutcome)
    \/ \E r \in Reqs : Alone(r) /\ CreateRecord(r, AnyOutcome)
    \/ \E r \in Reqs : Alone(r) /\ Load(r)
    \/ \E r \in Reqs : Alone(r) /\ ExitPhase1(r, AnyOutcome)
    \/ \E r \in Reqs : Alone(r) /\ StorePhase2Prompts(r, AnyOutcome)
    \/ \E r \in Reqs : Alone(r) /\ ExitPhase2a(r, AnyOutcome)
    \/ \E r \in Reqs : Alone(r) /\ ExitPhase2b(r, AnyOutcome)
    \/ \E r \in Reqs : Alone(r) /\ ExitPhase3(r, AnyOutcome)
    \/ \E r \in Reqs : Alone(r) /\ ExitUnknown(r)
    \/ \E r \in Reqs : Alone(r) /\ NoClient(r)
    \/ \E r \in Reqs : Alone(r) /\ Continue(r, AnyOutcome)

Spec == Init /\ [][Next]_vars

\* Requests interleaved at their reads and commits of the table.
ConcNext == \E r \in Reqs : Step(r, NoFailure)

ConcSpec == Init /\ [][ConcNext]_vars

\* A table that already holds a session whose current_phase is none of the
\* values this handler writes.
UnknownPhases == {"0", "5"}
Markers == {"initial", "phase2a", "phase2b", "phase3"}

LegacyInit ==
    /\ \E phase \in UnknownPhases, marker \in Markers :
          interventions = <<NewRow("p1", 1, phase, marker)>>
    /\ req = [r \in Reqs |-> IdleReq]
    /\ last = NoResponse
    /\ \E b \in BOOLEAN : openai_client = b /\ gemini_client = b
    /\ serverUp = TRUE
    /\ outbound = NoCalls
    /\ probe = NoProbe

\* The requests such a session can get, handled one at a time.
LegacyNext ==
    \/ \E r \in Reqs : Alone(r) /\ Reject(r)
    \/ \E r \in Reqs : Alone(r) /\ BeginOngoing(r, AnyOutcome)
    \/ \E r \in Reqs : Alone(r) /\ ExitUnknown(r)
    \/ \E r \in Reqs : Alone(r) /\ NoClient(r)
    \/ \E r \in Reqs : Alone(r) /\ Continue(r, AnyOutcome)

LegacySpec == LegacyInit /\ [][LegacyNext]_vars

\* ------------------------------------------------- functions applied on their own
MaxApplications == 2

\* The labels decide_strategy maps to a category, and some it does not know.
EmotionLabels ==
    { "rage", "anger", "annoyance", "vigilance", "anticipation", "interest",
      "ecstasy", "joy", "serenity", "admiration", "trust", "acceptance",
      "terror", "fear", "apprehension", "shame", "guilt",
      "amazement", "surprise", "distraction", "grief", "sadness", "pensiveness",
      "loathing", "disgust", "boredom",
      "neutral", "error_openai_not_init", "confused" }

\* How often one call of decide_strategy calls decide_reappraisal_subtype.
SubtypeCallCount(base) == IF CallsSubtype(base) THEN 1 ELSE 0

\* The handler's variables while a function is applied on its own.
HandlerAtRest ==
    /\ interventions = <<>>
    /\ req = [r \in Reqs |-> IdleReq]
    /\ last = NoResponse
    /\ \E b \in BOOLEAN : openai_client = b /\ gemini_client = b
    /\ serverUp = TRUE
    /\ outbound = NoCalls

\* decide_strategy is about to be called with a label, and its sub-call
\* will end in one of the outcomes.
ProbeDecideStrategy ==
    \E e \in EmotionLabels, sOut \in SubtypeOutcomes :
        probe = [fn |-> "decide_strategy", primary_emotion |-> e, subOut |-> sOut,
                 results |-> <<>>]

\* One call of decide_strategy with the arguments of the probe.
ApplyDecideStrategy ==
    /\ probe.fn = "decide_strategy"
    /\ Len(probe.results) < MaxApplications
    /\ probe' = [probe EXCEPT !.results =
                    Append(@, [ out |-> decide_strategy(openai_client, probe.primary_emotion,
                                                        probe.subOut),
                                subcalls |-> SubtypeCallCount(BaseCategory(probe.primary_emotion)) ])]
    /\ UNCHANGED <<interventions, req, last, openai_client, gemini_client, serverUp, outbound>>

\* Every commit succeeds and every collaborator returns, with any of the
\* answers it can give.
Answering ==
    [ trigger |-> { o \in TriggerOutcomes : o.kind # "raise" },
      emotion |-> { o \in EmotionOutcomes : o.kind # "raise" },
      subtype |-> { o \in SubtypeOutcomes : o.kind # "raise" },
      summary |-> {"ok"},
      reclassify |-> { o \in ReclassifyOutcomes : o.kind # "raise" },
      completion |-> {"ok", "raise"}, commit |-> {TRUE},
      aware |-> {FALSE}, shutdown_func |-> BOOLEAN, rows |-> MaxRows ]

\* The steps of a request once it has been received: the handler runs until
\* it has answered.
Handle(r) ==
    /\ Alone(r)
    /\ \/ CreateRecord(r, Answering)
       \/ Load(r)
       \/ ExitPhase1(r, Answering)
       \/ StorePhase2Prompts(r, Answering)
       \/ ExitPhase2a(r, Answering)
       \/ ExitPhase2b(r, Answering)
       \/ ExitPhase3(r, Answering)
       \/ ExitUnknown(r)
       \/ NoClient(r)
       \/ Continue(r, Answering)

LiveNext ==
    \/ \E r \in Reqs : Alone(r) /\ Reject(r)
    \/ \E r \in Reqs : Alone(r) /\ BeginNewSession(r, Answering)
    \/ \E r \in Reqs : Alone(r) /\ BeginOngoing(r, Answering)
    \/ \E r \in Reqs : Alone(r) /\ BeginMissing(r, Answering)
    \/ \E r \in Reqs : Alone(r) /\ CreateRecord(r, Answering)
    \/ \E r \in Reqs : Alone(r) /\ Load(r)
    \/ \E r \in Reqs : Alone(r) /\ ExitPhase1(r, Answering)
    \/ \E r \in Reqs : Alone(r) /\ StorePhase2Prompts(r, Answering)
    \/ \E r \in Reqs : Alone(r) /\ ExitPhase2a(r, Answering)
    \/ \E r \in Reqs : Alone(r) /\ ExitPhase2b(r, Answering)
    \/ \E r \in Reqs : Alone(r) /\ ExitPhase3(r, Answering)
    \/ \E r \in Reqs : Alone(r) /\ ExitUnknown(r)
    \/ \E r \in Reqs : Alone(r) /\ NoClient(r)
    \/ \E r \in Reqs : Alone(r) /\ Continue(r, Answering)

\* Requests handled one at a time, each one to its answer.
LiveSpec == Init /\ [][LiveNext]_vars /\ \A r \in Reqs : WF_vars(Handle(r))

\* Creation and the first exit of up to MaxSessions sessions, with the steps
\* of the requests interleaved and nothing failing.
MaxSessions == 2

TwoSessions == [NoFailure EXCEPT !.rows = MaxSessions]

CreateNext ==
    \/ \E r \in Reqs : BeginNewSession(r, TwoSessions)
    \/ \E r \in Reqs : BeginOngoing(r, TwoSessions)
    \/ \E r \in Reqs : BeginMissing(r, TwoSessions)
    \/ \E r \in Reqs : CreateRecord(r, TwoSessions)
    \/ \E r \in Reqs : Load(r)
    \/ \E r \in Reqs : ExitPhase1(r, TwoSessions)
    \/ \E r \in Reqs : StorePhase2Prompts(r, TwoSessions)
    \/ \E r \in Reqs : NoClient(r)
    \/ \E r \in Reqs : Continue(r, TwoSessions)

CreateSpec == Init /\ [][CreateNext]_vars

\* ------------------------------------------------- sessions of a participant
\* Several sessions in the table, requests handled one at a time.  The table
\* may already hold the session another participant began with a new-session
\* request (lines 1063-1071); the store works.
MaxTable == 3

Neighbour == "p2"

ManySessions == [NoFailure EXCEPT !.rows = MaxTable]

SessionsInit ==
    /\ interventions \in { <<>>, <<NewRow(Neighbour, 1, "1", "initial")>> }
    /\ req = [r \in Reqs |-> IdleReq]
    /\ last = NoResponse
    /\ \E b \in BOOLEAN : openai_client = b /\ gemini_client = b
    /\ serverUp = TRUE
    /\ outbound = NoCalls
    /\ probe = NoProbe

SessionsNext ==
    \/ \E r \in Reqs : Alone(r) /\ Reject(r)
    \/ \E r \in Reqs : Alone(r) /\ BeginNewSession(r, ManySessions)
    \/ \E r \in Reqs : Alone(r) /\ BeginOngoing(r, ManySessions)
    \/ \E r \in Reqs : Alone(r) /\ BeginMissing(r, ManySessions)
    \/ \E r \in Reqs : Alone(r) /\ CreateRecord(r, ManySessions)
    \/ \E r \in Reqs : Alone(r) /\ Load(r)
    \/ \E r \in Reqs : Alone(r) /\ ExitPhase1(r, ManySessions)
    \/ \E r \in Reqs : Alone(r) /\ StorePhase2Prompts(r, ManySessions)
    \/ \E r \in Reqs : Alone(r) /\ NoClient(r)
    \/ \E r \in Reqs : Alone(r) /\ Continue(r, ManySessions)

SessionsSpec == SessionsInit /\ [][SessionsNext]_vars

\* The texts is_endphase_command is applied to: the command, misspellings
\* and parts of it, other words, nothing; bare or with spaces around.
CommandWords ==
    { <<"e", "n", "d", "p", "h", "a", "s", "e", "(", ")">>,
      <<"e", "n", "d", "p", "h", "a", "z", "e", "(">>,
      <<"h", "e", "l", "l", "o">>,
      <<>>,
      <<"E", "N", "D", "P", "H", "A", "S", "E", "(", ")">>,
      <<"E", "n", "d", "P", "h", "a", "s", "e", "(", ")">>,
      <<"e", "n", "d", "p", "h", "a", "s", "e">>,
      <<"e", "n", "d">>,
      <<"p", "h", "a", "s", "e", "(", ")">>,
      <<"e", "n", "d", "f", "a", "s", "e", "(", ")">>,
      <<"e", "n", "d", " ", "p", "h", "a", "s", "e">>,
      <<"n", "e", "x", "t", "(", ")">> }

Paddings == { <<>>, <<" ">>, <<" ", " ">> }

CommandTexts == { before \o word \o after : before \in Paddings, word \in CommandWords, after \in Paddings }

\* is_endphase_command is about to be called with a text.
ProbeCommand ==
    \E text \in CommandTexts :
        probe = [fn |-> "is_endphase_command", user_input |-> text, results |-> <<>>]

\* One call of is_endphase_command with the text of the probe.
ApplyIsEndphaseCommand ==
    /\ probe.fn = "is_endphase_command"
    /\ Len(probe.results) < MaxApplications
    /\ probe' = [probe EXCEPT !.results =
                    Append(@, is_endphase_command(probe.user_input, DefaultThreshold))]
    /\ UNCHANGED <<interventions, req, last, openai_client, gemini_client, serverUp, outbound>>

\* The texts a completion returns: every text of up to MaxReplyLen letters,
\* spaces and line ends, as it is or after a line of LongReplyChars letters.
MaxReplyLen == 7

ReplyAlphabet == {"a", " ", "\n"}

ShortContents == UNION { [1..n -> ReplyAlphabet] : n \in 0..MaxReplyLen }

LongLine == [i \in 1..LongReplyChars |-> "a"]

Contents == ShortContents \cup { LongLine \o text : text \in ShortContents }

\* A completion has returned a text on the continue path.
ProbeReply ==
    \E content \in Contents :
        probe = [fn |-> "reply_of", content |-> content, results |-> <<>>]

\* The continue path turns the text of the probe into its response.
ApplyReplyOf ==
    /\ probe.fn = "reply_of"
    /\ Len(probe.results) < MaxApplications
    /\ probe' = [probe EXCEPT !.results = Append(@, reply_of(probe.content))]
    /\ UNCHANGED <<interventions, req, last, openai_client, gemini_client, serverUp, outbound>>

\* The sensor series of a request: absent, or up to MaxSamples readings.
MaxSamples == 2

SeriesOver(readings) ==
    {Absent} \cup { Given(samples) : samples \in UNION { [1..n -> readings] : n \in 0..MaxSamples } }

IbiSeries == SeriesOver({0, 800, 860})
SkinTempSeries == SeriesOver({34})
AccSeries == SeriesOver({ [x |-> 0, y |-> 0, z |-> 0], [x |-> 1, y |-> 2, z |-> 3] })

\* The three reducers and the endpoint are about to be applied to series.
ProbeSensors ==
    \E ibi \in IbiSeries, temp \in SkinTempSeries, acc \in AccSeries, loaded \in BOOLEAN :
        probe = [fn |-> "process_sensor_data", model_loaded |-> loaded,
                 ibi_series |-> ibi, skin_temp_series |-> temp, acc_series |-> acc,
                 results |-> <<>>]

\* One application of the reducers, of the assembly of their vector, and of
\* the endpoint, to the series of the probe.
ApplySensors ==
    /\ probe.fn = "process_sensor_data"
    /\ Len(probe.results) < MaxApplications
    /\ probe' = [probe EXCEPT !.results = Append(@,
          LET hrv == calculate_hrv_features(probe.ibi_series)
              skin == calculate_skin_temp_features(probe.skin_temp_series)
              acc == calculate_accelerometer_features(probe.acc_series)
          IN  [ hrv |-> hrv, skin |-> skin, acc |-> acc,
                vector |-> feature_vector_list(hrv, skin, acc),
                response |-> process_sensor_data(probe.model_loaded, probe.ibi_series,
                                                 probe.skin_temp_series, probe.acc_series) ])]
    /\ UNCHANGED <<interventions, req, last, openai_client, gemini_client, serverUp, outbound>>

PureInit ==
    HandlerAtRest /\ (ProbeDecideStrategy \/ ProbeCommand \/ ProbeReply \/ ProbeSensors)

PureNext ==
    \/ ApplyDecideStrategy
    \/ ApplyIsEndphaseCommand
    \/ ApplyReplyOf
    \/ ApplySensors

PureSpec == PureInit /\ [][PureNext]_vars


\* ------------------------------------------------------------------ claims

\* The place of a phase value in the order 1 < 2a < 2b < 3 < 4.
PhaseOrder == <<"1", "2a", "2b", "3", "4">>
Rank(phase) ==
    IF \E k \in 1..Len(PhaseOrder) : PhaseOrder[k] = phase
    THEN CHOOSE k \in 1..Len(PhaseOrder) : PhaseOrder[k] = phase
    ELSE 0

\* C1: with requests handled one at a time, every change of a stored
\* current_phase goes from a phase of the order 1 < 2a < 2b < 3 < 4 to its
\* immediate successor (so no phase is skipped and none is entered again),
\* and no row is removed or re-keyed.
C1_PhaseForwardOnly ==
    [][ /\ Len(interventions') >= Len(interventions)
        /\ \A i \in 1..Len(interventions) :
             /\ interventions'[i].participant_id = interventions[i].participant_id
             /\ interventions'[i].intervention_id = interventions[i].intervention_id
             /\ interventions'[i].current_phase # interventions[i].current_phase
                  => /\ Rank(interventions[i].current_phase) >= 1
                     /\ Rank(interventions'[i].current_phase)
                          = Rank(interventions[i].current_phase) + 1 ]_vars

\* C1 witness: a session that went through every exit and is Closed.
C1_ReachedClosed ==
    \E i \in 1..Len(interventions) :
        /\ interventions[i].current_phase = "4"
        /\ interventions[i].summary_phase1 # NoText
        /\ interventions[i].summary_phase2a # NoText
        /\ interventions[i].summary_phase2b # NoText
        /\ interventions[i].summary_phase3 # NoText


\* The row of a session key, NoRow when there is none.
RowOf(pid, iid) ==
    IF FirstMatch(interventions, pid, iid) = 0 THEN NoRow
    ELSE interventions[FirstMatch(interventions, pid, iid)]

\* C2: when the response just returned was that of a command whose exit was
\* committed, a command for the same session handled next leaves the stored
\* current_phase where that first command put it.
C2_SecondCommandGuarded ==
    [][ \A r \in Reqs :
          ( /\ last.cmd /\ last.committed = "ok" /\ last.exited \in {"1", "2a", "2b", "3"}
            /\ req[r].pc = "loaded" /\ req[r].cmd
            /\ req[r].participant_id = last.participant_id
            /\ req[r].intervention_id = last.intervention_id )
          => interventions'[req[r].idx].current_phase
               = interventions[req[r].idx].current_phase ]_vars

\* C3: with requests interleaved, first_strategy and second_strategy of a row
\* are never written again once they are stored.
C3_StrategiesWrittenOnce ==
    [][ \A i \in 1..Len(interventions) :
          interventions[i].first_strategy # NULL
          => /\ interventions'[i].first_strategy = interventions[i].first_strategy
             /\ interventions'[i].second_strategy = interventions[i].second_strategy ]_vars


\* The progress fields of a row.
Progress(row) ==
    [ current_phase |-> row.current_phase,
      emotion_before |-> row.emotion_before,
      primary_trigger |-> row.primary_trigger,
      triggers |-> row.triggers,
      first_strategy |-> row.first_strategy,
      second_strategy |-> row.second_strategy,
      summary_phase1 |-> row.summary_phase1,
      summary_phase2a |-> row.summary_phase2a,
      summary_phase2b |-> row.summary_phase2b,
      summary_phase3 |-> row.summary_phase3 ]

\* C4: the step that answers a non-command message (with a completion or
\* with the error reply of a failed completion) leaves every row's progress
\* fields as they were, and as the request loaded them.
C4_ContinueKeepsProgress ==
    [][ \A r \in Reqs :
          (req[r].pc = "loaded" /\ ~req[r].cmd /\ req'[r].pc = "idle")
          => /\ \A i \in 1..Len(interventions) :
                  Progress(interventions'[i]) = Progress(interventions[i])
             /\ Progress(interventions'[req[r].idx]) = Progress(req[r].snap) ]_vars

\* C4 witness: a failed completion was answered for a session in phase 2a
\* whose Identification results are stored.
C4_ContinueRan ==
    /\ ~last.cmd /\ last.body = "reply" /\ last.reply = CompletionErrorReply
    /\ RowOf(last.participant_id, last.intervention_id).current_phase = "2a"
    /\ RowOf(last.participant_id, last.intervention_id).first_strategy # NULL


\* Whether a text (a sequence of its parts) names a value.
Mentions(text, value) == \E k \in 1..Len(text) : text[k] = value

\* A generated summary names the strategies it was built from.
SummaryUsesPair(text, row) ==
    \/ Len(text) < 6
    \/ text[5] = row.first_strategy /\ text[6] = row.second_strategy

\* C5: once first_strategy and second_strategy are stored no step changes
\* them, every later summary is built from that pair, and the stored
\* reflection instructions name that pair.
C5_StrategiesFixedAndUsed ==
    [][ \A i \in 1..Len(interventions) :
          /\ interventions[i].first_strategy # NULL
               => /\ interventions'[i].first_strategy = interventions[i].first_strategy
                  /\ interventions'[i].second_strategy = interventions[i].second_strategy
          /\ SummaryUsesPair(interventions'[i].summary_phase2a, interventions'[i])
          /\ SummaryUsesPair(interventions'[i].summary_phase2b, interventions'[i])
          /\ SummaryUsesPair(interventions'[i].summary_phase3, interventions'[i])
          /\ interventions'[i].phase3_prompt # NoText
               => /\ Mentions(interventions'[i].phase3_prompt, interventions'[i].first_strategy)
                  /\ Mentions(interventions'[i].phase3_prompt, interventions'[i].second_strategy)
      ]_vars


\* What a reload of the session shows of the phase, the marker, the
\* summaries and the emotion snapshots.
Durable(row) ==
    [ current_phase |-> row.current_phase,
      insert_system_prompt |-> row.insert_system_prompt,
      summary_phase1 |-> row.summary_phase1,
      summary_phase2a |-> row.summary_phase2a,
      summary_phase2b |-> row.summary_phase2b,
      summary_phase3 |-> row.summary_phase3,
      emotion_before |-> row.emotion_before,
      emotion_after_phase2a |-> row.emotion_after_phase2a,
      emotion_after_phase2b |-> row.emotion_after_phase2b,
      emotion_after_phase3 |-> row.emotion_after_phase3 ]

\* C6: when the commit of an exit fails, the step of that commit changes none
\* of the phase, marker, summaries and emotion snapshots of the row, and when
\* the request is answered the row still shows the values the request loaded.
C6_FailedCommitRolledBack ==
    [][ \A r \in Reqs :
          /\ ( /\ req[r].pc = "loaded" /\ req[r].cmd
               /\ \/ req'[r].pc = "p1_prompts" /\ ~req'[r].commit_ok
                  \/ req'[r].pc = "idle" /\ last'.committed = "failed" )
             => Durable(interventions'[req[r].idx]) = Durable(interventions[req[r].idx])
          /\ ( /\ req[r].pc \in {"loaded", "p1_prompts"} /\ req[r].cmd
               /\ req'[r].pc = "idle" /\ last'.committed = "failed" )
             => Durable(interventions'[req[r].idx]) = Durable(req[r].snap) ]_vars

\* C6 witness: the commit of the 2b exit failed and the session is still in
\* phase 2b, with no 2b summary.
C6_FailedExit2b ==
    /\ last.exited = "2b" /\ last.committed = "failed"
    /\ RowOf(last.participant_id, last.intervention_id).current_phase = "2b"
    /\ RowOf(last.participant_id, last.intervention_id).insert_system_prompt = "phase2b"
    /\ RowOf(last.participant_id, last.intervention_id).summary_phase2b = NoText

\* C7: a response to a request whose exit commit failed is an error response,
\* never the 200 response that carries the reply of the exit.
C7_FailedCommitReported ==
    last.committed = "failed" => (last.status >= 400 /\ last.body = "error")

\* C8: with no request in flight, a stored row holds the phase-2 instruction
\* blocks exactly when it holds the phase, emotion, trigger and strategies of
\* the Identification exit.
C8_Exit1FieldsTogether ==
    (\A r \in Reqs : req[r].pc = "idle")
    => \A i \in 1..Len(interventions) :
         LET row == interventions[i]
             blocks == row.phase2_prompt # NoText /\ row.phase2b_prompt # NoText
             exited == /\ row.current_phase # "1"
                       /\ row.emotion_before # NULL
                       /\ row.primary_trigger # NULL
                       /\ row.first_strategy # NULL
                       /\ row.second_strategy # NULL
         IN  /\ row.current_phase = "2a" => blocks
             /\ (row.phase2_prompt # NoText \/ row.phase2b_prompt # NoText) => exited

\* C9: a request that ran the Identification exit is never answered with the
\* failure of the trigger or the emotion call: the session has left phase 1.
C9_ClassifierFailureAbsorbed ==
    (last.exited = "1" /\ last.details \in {"extract_trigger_types", "identify_emotion_plutchik"})
    => RowOf(last.participant_id, last.intervention_id).current_phase = "2a"

\* C10: a request that ran the Identification exit is never answered with
\* the KeyError of an unknown reappraisal subtype: the session has left
\* phase 1 with both strategies stored.
C10_SubtypeFailureAbsorbed ==
    (last.exited = "1" /\ last.details = "KeyError")
    => /\ RowOf(last.participant_id, last.intervention_id).current_phase = "2a"
       /\ RowOf(last.participant_id, last.intervention_id).first_strategy # NULL
       /\ RowOf(last.participant_id, last.intervention_id).second_strategy # NULL


\* Whether a returned transcript is the client's history, then the user
\* message, then the given reply as the assistant message.
EndsWithReply(history, q, reply) ==
    /\ Len(history) = Len(q.history) + 2
    /\ SubSeq(history, 1, Len(q.history)) = q.history
    /\ history[Len(q.history) + 1] = Msg("user", UserMessage(q.cmd))
    /\ history[Len(q.history) + 2] = Msg("assistant", reply)

\* C11: when the completion call of a non-command message raises, the
\* response is the error reply of the turn, appended to the returned
\* transcript after the user message, and no row changes its progress
\* fields or its marker: the row is as the request loaded it.
C11_FailedCompletionRecoverable ==
    [][ \A r \in Reqs :
          ( /\ req[r].pc = "loaded" /\ ~req[r].cmd /\ req'[r].pc = "idle"
            /\ outbound'.completion = "raise" )
          => /\ last'.status = 200
             /\ last'.reply = CompletionErrorReply
             /\ EndsWithReply(last'.history, req[r], CompletionErrorReply)
             /\ \A i \in 1..Len(interventions) : interventions'[i] = interventions[i]
             /\ Progress(interventions'[req[r].idx]) = Progress(req[r].snap)
             /\ interventions'[req[r].idx].insert_system_prompt
                  = req[r].snap.insert_system_prompt ]_vars

\* C11 witness: the completion call raised for a message of a session in
\* phase 3 that came with a history, and the error reply was returned.
C11_CompletionFailed ==
    /\ outbound.completion = "raise"
    /\ ~last.cmd /\ last.reply = CompletionErrorReply
    /\ Len(last.history) > 2
    /\ RowOf(last.participant_id, last.intervention_id).current_phase = "3"


RestatesSessionEnded(reply) == Mentions(reply, session_end_system_prompt[1])

\* C13: the step that answers a command for a session in phase 4 changes no
\* row, calls no classifier and no summary, and replies that the session
\* has ended.
C13_ClosedCommandNoOp ==
    [][ \A r \in Reqs :
          ( /\ req[r].pc = "loaded" /\ req[r].cmd /\ req[r].snap.current_phase = "4"
            /\ req'[r].pc = "idle" )
          => /\ interventions' = interventions
             /\ outbound'.calls = {}
             /\ last'.status = 200
             /\ RestatesSessionEnded(last'.reply) ]_vars


\* The instruction blocks a request can hand to the completion: the
\* initial instructions and the blocks stored on the row it loaded.
PhaseBlocks(q) ==
    {initial_system_prompt, q.snap.phase2_prompt, q.snap.phase2b_prompt, q.snap.phase3_prompt}
    \ {NoText}

\* The instruction blocks among the messages of a completion request.
BlocksIn(q, messages) ==
    { i \in 1..Len(messages) :
        messages[i].role = "system" /\ messages[i].content \in PhaseBlocks(q) }

\* C14: the step that answers a non-command message for a session in
\* phase 4 hands no phase instruction block to the completion.
C14_ClosedSendsNoBlock ==
    [][ \A r \in Reqs :
          ( /\ req[r].pc = "loaded" /\ ~req[r].cmd /\ req[r].snap.current_phase = "4"
            /\ req'[r].pc = "idle" )
          => \/ outbound'.completion = "none"
             \/ BlocksIn(req[r], outbound'.messages) = {} ]_vars


\* C15: the step that answers a command for a session whose stored
\* current_phase is none of 1, 2a, 2b, 3, 4 returns the "lost my place"
\* reply with status 200, appended to the returned transcript, changes no
\* row, calls nothing and leaves the server running.
C15_UnknownPhaseAnswered ==
    [][ \A r \in Reqs :
          ( /\ req[r].pc = "loaded" /\ req[r].cmd
            /\ req[r].snap.current_phase \notin {"1", "2a", "2b", "3", "4"}
            /\ req'[r].pc = "idle" )
          => /\ last'.status = 200 /\ last'.details = NULL
             /\ last'.reply = LostMyPlace
             /\ EndsWithReply(last'.history, req[r], LostMyPlace)
             /\ interventions' = interventions
             /\ outbound'.calls = {}
             /\ serverUp' ]_vars

\* C15 witness: a command for a session with an unknown phase value was
\* answered with the "lost my place" reply.
C15_LostPlaceReplied ==
    /\ last.cmd /\ last.status = 200 /\ last.reply = LostMyPlace
    /\ RowOf(last.participant_id, last.intervention_id).current_phase \in UnknownPhases


\* The instruction block of the phase after the one exited, as the exit
\* decided it from the emotion, trigger and strategies it stored.
NextBlock(row, exited) ==
    CASE exited = "1" ->
           Phase2Prompt(row.emotion_before, row.primary_trigger, row.first_strategy,
                        StrategyPrompt(row.first_strategy, row.emotion_before))
      [] exited = "2a" ->
           Phase2bPrompt(row.emotion_before, row.primary_trigger, row.second_strategy,
                         StrategyPrompt(row.second_strategy, row.emotion_before))
      [] exited = "2b" -> Phase3Prompt(row.first_strategy, row.second_strategy)

\* C16: no step of an exit calls the completion, and the non-command
\* message answered right after the committed exit of phase 1, 2a or 2b of
\* the same session is handed to the completion with the instruction block
\* of the next phase among its messages.
C16_BlockDeliveredNextTurn ==
    [][ \A r \in Reqs :
          /\ (req[r].cmd /\ req[r].pc \in {"loaded", "p1_prompts"} /\ req'[r] # req[r])
               => outbound'.completion = "none"
          /\ ( /\ req[r].pc = "loaded" /\ ~req[r].cmd /\ req'[r].pc = "idle"
               /\ last.cmd /\ last.status = 200 /\ last.committed = "ok"
               /\ last.exited \in {"1", "2a", "2b"}
               /\ last.participant_id = req[r].participant_id
               /\ last.intervention_id = req[r].intervention_id )
               => /\ outbound'.completion # "none"
                  /\ \E i \in 1..Len(outbound'.messages) :
                        outbound'.messages[i]
                          = Msg("system", NextBlock(interventions[req[r].idx], last.exited))
      ]_vars


\* The block a marker stands for on the row a request loaded.
OwedBlock(q) ==
    CASE q.snap.insert_system_prompt = "phase2a" -> q.snap.phase2_prompt
      [] q.snap.insert_system_prompt = "phase2b" -> q.snap.phase2b_prompt
      [] q.snap.insert_system_prompt = "phase3" -> q.snap.phase3_prompt
      [] OTHER -> NoText

\* C17: once the block a marker stands for has been handed to the
\* completion on a non-command turn, the stored marker no longer names
\* that phase.
C17_MarkerClearedOnceInjected ==
    [][ \A r \in Reqs :
          ( /\ req[r].pc = "loaded" /\ ~req[r].cmd /\ req'[r].pc = "idle"
            /\ OwedBlock(req[r]) # NoText
            /\ outbound'.completion # "none"
            /\ \E i \in 1..Len(outbound'.messages) :
                  outbound'.messages[i] = Msg("system", OwedBlock(req[r])) )
          => interventions'[req[r].idx].insert_system_prompt
               # req[r].snap.insert_system_prompt ]_vars


\* The positions of the system messages of a request context.
SystemAt(messages) == { i \in 1..Len(messages) : messages[i].role = "system" }

\* C18: when a stored block is owed on a non-command turn, the messages
\* handed to the completion are the context with its first system message
\* replaced by the block, or with the block put in front when the context
\* has no system message, and so hold the block as their only system
\* message; for the markers phase2a, phase2b and phase3 alike.
C18_SpliceReplacesOrPrepends ==
    [][ \A r \in Reqs :
          ( /\ req[r].pc = "loaded" /\ ~req[r].cmd /\ req'[r].pc = "idle"
            /\ OwedBlock(req[r]) # NoText
            /\ outbound'.completion # "none" )
          => LET ctx == current_history_for_api(req[r])
                 block == Msg("system", OwedBlock(req[r]))
                 sent == outbound'.messages
             IN  /\ SystemAt(ctx) # {}
                      => /\ Len(sent) = Len(ctx)
                         /\ \E i \in SystemAt(ctx) :
                               /\ sent[i] = block
                               /\ \A j \in 1..Len(ctx) : j # i => sent[j] = ctx[j]
                 /\ SystemAt(ctx) = {} => sent = <<block>> \o ctx
                 /\ Cardinality(SystemAt(sent)) = 1 ]_vars


\* C19: when the exit of phase 1, 2a or 2b is committed and answered, the
\* reply is the stored Phase-1 summary, the fixed acknowledgment (and not the
\* stored 2a summary), or the stored Phase-2b summary; the stored marker names
\* the next phase; and the returned transcript ends with the user message
\* and the reply as the assistant message.
C19_ExitReplyByPhase ==
    [][ \A r \in Reqs :
          ( /\ req[r].cmd /\ req[r].pc \in {"loaded", "p1_prompts"} /\ req'[r].pc = "idle"
            /\ last'.status = 200 /\ last'.committed = "ok"
            /\ last'.exited \in {"1", "2a", "2b"} )
          => LET row == interventions'[req[r].idx]
             IN  /\ last'.exited = "1"
                      => /\ last'.reply = row.summary_phase1
                         /\ row.insert_system_prompt = "phase2a"
                 /\ last'.exited = "2a"
                      => /\ last'.reply = Ack2a
                         /\ last'.reply # row.summary_phase2a
                         /\ row.summary_phase2a # NoText
                         /\ row.insert_system_prompt = "phase2b"
                 /\ last'.exited = "2b"
                      => /\ last'.reply = row.summary_phase2b
                         /\ row.insert_system_prompt = "phase3"
                 /\ last'.reply # NoText
                 /\ EndsWithReply(last'.history, req[r], last'.reply) ]_vars

\* C19 witness: the exit of phase 2a was committed and answered with the
\* acknowledgment, the 2a summary is stored and the marker names phase 2b.
C19_AcknowledgedExit2a ==
    /\ last.cmd /\ last.exited = "2a" /\ last.committed = "ok" /\ last.reply = Ack2a
    /\ Len(last.history) > 2
    /\ RowOf(last.participant_id, last.intervention_id).summary_phase2a # NoText
    /\ RowOf(last.participant_id, last.intervention_id).insert_system_prompt = "phase2b"


\* C20: when the exit of phase 3 is committed and answered, the row is in
\* phase 4 with the final summary, the final emotion, the end time, the
\* duration and the mean user-message length stored, and the response is
\* the 200 response whose reply is that final summary.
C20_Exit3ClosesAndReplies ==
    [][ \A r \in Reqs :
          ( /\ req[r].pc = "loaded" /\ req[r].cmd /\ req[r].snap.current_phase = "3"
            /\ req'[r].pc = "idle" /\ last'.committed = "ok" )
          => LET row == interventions'[req[r].idx]
             IN  /\ row.current_phase = "4"
                 /\ row.summary_phase3 # NoText
                 /\ row.emotion_after_phase3 # NULL
                 /\ row.conversation_end_time # NULL
                 /\ row.conversation_duration_seconds # NULL
                 /\ row.avg_user_input_length_words # NULL
                 /\ last'.status = 200
                 /\ last'.reply = row.summary_phase3 ]_vars


\* Whether the sub-call of a probe of decide_strategy, if the category makes
\* it, answers with one of the two labels it is asked to choose from.
SubtypeInContract(p) ==
    \/ BaseCategory(p.primary_emotion) \in {"joy", "trust"}
    \/ /\ openai_client /\ p.subOut.kind = "ok"
       /\ p.subOut.value \in {"Agency Cognitive Change", "Positive Cognitive Change"}

\* first and second as the selection table of the specification gives them.
TableFirst(e) ==
    IF e \in {"loathing", "disgust", "boredom"} THEN "Situation Modification"
    ELSE "Attentional Deployment"

TableSecond(e, subtype) ==
    IF e \in {"ecstasy", "joy", "serenity", "admiration", "trust", "acceptance"}
    THEN "Response Modulation" ELSE subtype

\* C21: for every label and each of the two subtype results, a call of
\* decide_strategy returns, without raising, the first and second strategy of
\* the selection table and, for each, the body registered under that name;
\* sadness with Positive Cognitive Change gives Attentional Deployment, then
\* Positive Cognitive Change.
C21_SelectionTable ==
    (probe.fn = "decide_strategy" /\ SubtypeInContract(probe))
    => \A k \in 1..Len(probe.results) :
         LET out == probe.results[k].out
             e == probe.primary_emotion
         IN  /\ ~out.raised
             /\ out.first = TableFirst(e)
             /\ out.second = TableSecond(e, probe.subOut.value)
             /\ out.first \in StrategyNames /\ out.second \in StrategyNames
             /\ out.first_prompt = StrategyPrompt(out.first, e)
             /\ out.second_prompt = StrategyPrompt(out.second, e)
             /\ (e = "sadness" /\ probe.subOut.value = "Positive Cognitive Change")
                  => /\ out.first = "Attentional Deployment"
                     /\ out.second = "Positive Cognitive Change"

\* C21 witness: decide_strategy was called for disgust with the subtype
\* result Agency Cognitive Change.
C21_DisgustDecided ==
    /\ probe.fn = "decide_strategy" /\ probe.primary_emotion = "disgust"
    /\ openai_client /\ probe.subOut.value = "Agency Cognitive Change"
    /\ Len(probe.results) >= 1
    /\ probe.results[1].out.second = "Agency Cognitive Change"

RowsOf(tbl, pid, iid) ==
    { i \in 1..Len(tbl) : tbl[i].participant_id = pid /\ tbl[i].intervention_id = iid }

LaterPhases == {"2a", "2b", "3"}

IdentificationFields(row) == <<row.emotion_before, row.primary_trigger, row.triggers>>

EmotionAfter(row, phase) ==
    CASE phase = "2a" -> row.emotion_after_phase2a
      [] phase = "2b" -> row.emotion_after_phase2b
      [] phase = "3" -> row.emotion_after_phase3

SummaryOf(row, phase) ==
    CASE phase = "1" -> row.summary_phase1
      [] phase = "2a" -> row.summary_phase2a
      [] phase = "2b" -> row.summary_phase2b
      [] phase = "3" -> row.summary_phase3

\* The request slot r ends a command of a session in one of the later phases
\* with this step.
LaterExitEnds(r) ==
    /\ req[r].pc = "loaded" /\ req[r].cmd
    /\ req[r].snap.current_phase \in LaterPhases
    /\ req'[r].pc = "idle"

\* C24: a step changes emotion_before, primary_trigger or triggers of a row
\* only as the exit of phase 1 (the row was in phase 1 with the three unset,
\* trigger extraction was called, and the row is in phase 2a afterwards); a
\* command ending in phase 2a, 2b or 3 has called nothing but the summary and
\* the emotion classifier, its summary is built from the stored
\* emotion_before, primary_trigger and strategies, and emotion_after_<phase>
\* changes only at the exit of that phase.
C24_IdentificationFieldsReadOnly ==
    [][ /\ \A i \in 1..Len(interventions) :
             LET old == interventions[i]
                 new == interventions'[i]
             IN  /\ IdentificationFields(new) # IdentificationFields(old) =>
                        /\ old.current_phase = "1" /\ new.current_phase = "2a"
                        /\ IdentificationFields(old) = <<NULL, NULL, NoText>>
                        /\ "extract_trigger_types" \in outbound'.calls
                 /\ \A p \in LaterPhases :
                        /\ EmotionAfter(new, p) # EmotionAfter(old, p) => old.current_phase = p
                        /\ SummaryOf(new, p) # SummaryOf(old, p) /\ gemini_client =>
                              SummaryOf(new, p) =
                                 <<"summary", p, old.emotion_before, old.primary_trigger,
                                   old.first_strategy, old.second_strategy>>
        /\ \A r \in Reqs : LaterExitEnds(r) =>
             outbound'.calls \subseteq {"context_builder", "identify_emotion_plutchik"}
      ]_vars

\* C24 witness: the exit of phase 2a has just stored a re-classified emotion
\* that differs from the emotion found at the exit of phase 1.
C24_ReclassifiedDifferently ==
    /\ Len(interventions) = 1
    /\ interventions[1].current_phase = "2b"
    /\ last.status = 200 /\ last.exited = "2a" /\ last.cmd
    /\ interventions[1].emotion_after_phase2a # NULL
    /\ interventions[1].emotion_after_phase2a # interventions[1].emotion_before
    /\ "identify_emotion_plutchik" \in outbound.calls


\* The step commits the summary of phase p for the request in slot r.
WritesSummary(r, p) ==
    /\ req[r].pc = "loaded" /\ req[r].cmd /\ req[r].snap.current_phase = p
    /\ IF p = "1"
       THEN req'[r].pc = "p1_prompts" /\ req'[r].commit_ok
       ELSE req'[r].pc = "idle" /\ last'.exited = p /\ last'.committed = "ok"

\* C25: a step stores the summary of a phase only as the exit of that phase,
\* on a row that is in that phase and has no summary of it yet; no other
\* step changes a stored summary.
C25_SummaryWrittenOnce ==
    [][ \A p \in {"1", "2a", "2b", "3"} :
          /\ \A r \in Reqs : WritesSummary(r, p) =>
                /\ interventions[req[r].idx].current_phase = p
                /\ SummaryOf(interventions[req[r].idx], p) = NoText
          /\ \A i \in 1..Len(interventions) :
                SummaryOf(interventions'[i], p) # SummaryOf(interventions[i], p) =>
                   \E r \in Reqs : WritesSummary(r, p) /\ req[r].idx = i
      ]_vars


\* C26: the stored phase2b_prompt changes only at the second commit of the
\* exit of phase 1; the exit of phase 2a calls nothing but the summary and
\* the emotion classifier; and the block a non-command turn of phase 2b
\* hands to the completion is the block built from the stored emotion,
\* trigger and second strategy, the ones the exit of phase 1 committed.
C26_StoredBlockIsTheDecidedOne ==
    [][ /\ \A i \in 1..Len(interventions) :
             interventions'[i].phase2b_prompt # interventions[i].phase2b_prompt =>
                \E r \in Reqs : req[r].pc = "p1_prompts" /\ req[r].idx = i
        /\ \A r \in Reqs :
             /\ ( /\ req[r].pc = "loaded" /\ req[r].cmd
                  /\ req[r].snap.current_phase = "2a" /\ req'[r].pc = "idle" )
                  => outbound'.calls \subseteq {"context_builder", "identify_emotion_plutchik"}
             /\ ( /\ req[r].pc = "loaded" /\ ~req[r].cmd /\ req'[r].pc = "idle"
                  /\ req[r].snap.current_phase = "2b"
                  /\ req[r].snap.insert_system_prompt = "phase2b"
                  /\ req[r].snap.phase2b_prompt # NoText
                  /\ outbound'.completion # "none" )
                  => /\ Msg("system", req[r].snap.phase2b_prompt)
                          \in { outbound'.messages[i] : i \in 1..Len(outbound'.messages) }
                     /\ req[r].snap.phase2b_prompt = NextBlock(interventions[req[r].idx], "2a")
      ]_vars


\* The "details" of a 500 that follows a collaborator or the store raising,
\* or answering outside its contract (a label that is no strategy, a start
\* time with a time zone).
UpstreamFailures ==
    {"extract_trigger_types", "identify_emotion_plutchik", "decide_reappraisal_subtype",
     "context_builder", "commit", "KeyError", "TypeError"}

\* C27: a request that found its record, on the continue path or on the
\* exit path of any phase, and during which no collaborator and no commit
\* failed, is answered with a reply and a transcript that is the client's
\* history, then the user message, then that reply.
C27_ReplyAndTranscript ==
    [][ \A r \in Reqs :
          ( /\ req[r].pc \in {"loaded", "p1_prompts"} /\ req'[r].pc = "idle"
            /\ last'.details \notin UpstreamFailures )
          => /\ last'.body \in {"bot_response", "reply"}
             /\ last'.reply # NoText
             /\ EndsWithReply(last'.history, req[r], last'.reply) ]_vars


\* A command of a stored session is about to be handled.
CommandLoaded == \E r \in Reqs : req[r].pc = "loaded" /\ req[r].cmd

Closed == \E i \in 1..Len(interventions) : interventions[i].current_phase = "4"

\* C28: when every commit succeeds and every collaborator returns, a
\* session whose user keeps sending commands is eventually in phase 4,
\* whatever the collaborators answer.
C28_CommandsReachClosed == ([]<>CommandLoaded) => <>Closed


\* The texts of the claim's examples, as they are typed.
TypedCommand == <<"e", "n", "d", "p", "h", "a", "s", "e", "(", ")">>
TypedMisspelt == <<"e", "n", "d", "p", "h", "a", "z", "e", "(">>
TypedUpper == <<"E", "N", "D", "P", "H", "A", "S", "E", "(", ")">>
TypedMixed == <<"E", "n", "d", "P", "h", "a", "s", "e", "(", ")">>
TypedHello == <<"h", "e", "l", "l", "o">>

Padded(words) == { before \o word \o after : before \in Paddings, word \in words, after \in Paddings }

\* C29: every application of is_endphase_command with the default threshold
\* answers whether twice the matched length is at least 0.7 of the summed
\* lengths of the trimmed, lower-cased text and 'endphase()'; it answers
\* true for 'endphase()', 'endphaze(' and the upper-case forms, bare or
\* padded with spaces, false for 'hello' and for the empty or blank text;
\* it answers the same when applied again and leaves the state of the
\* handler untouched.
C29_CommandMatcher ==
    probe.fn = "is_endphase_command"
    => /\ interventions = <<>> /\ req = [r \in Reqs |-> IdleReq] /\ last = NoResponse
       /\ outbound = NoCalls /\ serverUp
       /\ \A k \in 1..Len(probe.results) :
            LET out == probe.results[k]
                text == probe.user_input
                r == ratio(lower(strip(text)), break_sentence)
            IN  /\ out \in BOOLEAN
                /\ out <=> (r.twice * 10 >= 7 * r.length)
                /\ text \in Padded({TypedCommand, TypedMisspelt, TypedUpper, TypedMixed}) => out
                /\ text \in Padded({TypedHello, <<>>}) => ~out
                /\ out = probe.results[1]

\* C29 witness: the upper-case command with spaces around it was matched,
\* twice.
C29_PaddedUpperMatched ==
    /\ probe.fn = "is_endphase_command"
    /\ probe.user_input = <<" ">> \o TypedUpper \o <<" ", " ">>
    /\ Len(probe.results) = MaxApplications
    /\ probe.results[1]


\* The characters of a text, or of the chunks of a text, that are not
\* white space.
Ink(text) == SelectSeq(text, LAMBDA c : c \notin Whitespace)

RECURSIVE InkOfAll(_)
InkOfAll(chunks) ==
    IF chunks = <<>> THEN <<>> ELSE Ink(Head(chunks)) \o InkOfAll(Tail(chunks))

LineEnds(text) == Cardinality({ i \in 1..Len(text) : text[i] = "\n" })

\* C30: the response made of a completion text holds at least one chunk
\* and the transcript the whole stripped reply; the chunks hold the reply's
\* characters in order, with white space lost only where it was split; a
\* reply with content yields no empty or blank chunk; a reply with a blank
\* line yields chunks without blank lines; a reply without one that has
\* more than three lines or more than 200 characters yields chunks of one
\* line each; any other reply is its own single chunk.
C30_ReplyInChunks ==
    probe.fn = "reply_of"
    => \A k \in 1..Len(probe.results) :
         LET res == probe.results[k]
             chunks == res.bot_response
             reply == strip(probe.content)
             long == LineEnds(reply) >= 3 \/ Len(reply) > 200
         IN  /\ res.assistant = Msg("assistant", reply)
             /\ Len(chunks) >= 1
             /\ InkOfAll(chunks) = Ink(reply)
             /\ reply # <<>> => \A c \in 1..Len(chunks) :
                                  chunks[c] # <<>> /\ strip(chunks[c]) = chunks[c]
             /\ Contains(reply, BlankLine)
                  => /\ \A c \in 1..Len(chunks) : ~Contains(chunks[c], BlankLine)
                     /\ Len(chunks) >= 2
             /\ (~Contains(reply, BlankLine) /\ long)
                  => /\ \A c \in 1..Len(chunks) : ~Contains(chunks[c], Newline)
                     /\ Len(chunks) <= LineEnds(reply) + 1
             /\ (~Contains(reply, BlankLine) /\ ~long) => chunks = <<reply>>

\* C30 witness: a reply of two paragraphs, the first of two lines, came
\* back as two chunks.
C30_TwoParagraphs ==
    /\ probe.fn = "reply_of"
    /\ probe.content = <<"a", "\n", "a", "\n", "\n", "a", " ">>
    /\ Len(probe.results) = MaxApplications
    /\ probe.results[1].bot_response = << <<"a", "\n", "a">>, <<"a">> >>


AllUndefined(features) == \A name \in DOMAIN features : ~features[name].defined

\* C31: an IBI series that is absent or has fewer than two samples gives
\* six features, an absent or empty temperature series four, an absent or
\* empty accelerometer series nineteen, all of them undefined; the vector
\* assembled from the three records has 29 entries, the six HRV features
\* first, then the four of the temperature, then the nineteen of the
\* accelerometer, each under its name; and the endpoint never answers that
\* the vector has the wrong width.
C31_ReducersTotal ==
    probe.fn = "process_sensor_data"
    => \A k \in 1..Len(probe.results) :
         LET res == probe.results[k]
         IN  /\ Cardinality(DOMAIN res.hrv) = 6
             /\ Cardinality(DOMAIN res.skin) = 4
             /\ Cardinality(DOMAIN res.acc) = 19
             /\ (~probe.ibi_series.present \/ Len(probe.ibi_series.samples) < 2)
                  => AllUndefined(res.hrv)
             /\ (~probe.skin_temp_series.present \/ Len(probe.skin_temp_series.samples) = 0)
                  => AllUndefined(res.skin)
             /\ (~probe.acc_series.present \/ Len(probe.acc_series.samples) = 0)
                  => AllUndefined(res.acc)
             /\ Len(res.vector) = 29
             /\ \A i \in 1..6 : res.vector[i] = res.hrv[HrvNames[i]]
             /\ \A i \in 1..4 : res.vector[6 + i] = res.skin[SkinTempNames[i]]
             /\ \A i \in 1..19 : res.vector[10 + i] = res.acc[AccNames[i]]
             /\ res.response.status = 200 => res.response.vector = res.vector
             /\ (res.response.status = 500) = ~probe.model_loaded

\* C31 witness: a request with one IBI sample and readings of the two
\* other sensors was answered from a vector whose HRV part is undefined.
C31_OneIbiSample ==
    /\ probe.fn = "process_sensor_data"
    /\ probe.model_loaded
    /\ probe.ibi_series = Given(<<800>>)
    /\ probe.skin_temp_series = Given(<<34>>)
    /\ Len(probe.acc_series.samples) = 1
    /\ Len(probe.results) = MaxApplications
    /\ probe.results[1].response.status = 200
    /\ \A i \in 1..6 : ~probe.results[1].vector[i].defined
    /\ \A i \in 7..29 : probe.results[1].vector[i].defined


\* The marker stored next to each phase.
MarkerOf(phase) ==
    CASE phase = "1" -> "initial"
      [] phase = "2a" -> "phase2a"
      [] phase = "2b" -> "phase2b"
      [] phase = "3" -> "phase3"
      [] phase = "4" -> "phase3"
      [] OTHER -> NULL

\* C32: every stored row holds one of the pairs (1, initial), (2a, phase2a),
\* (2b, phase2b), (3, phase3), (4, phase3) in current_phase and
\* insert_system_prompt: no commit stores a phase without its marker.
C32_PhaseAndMarkerAgree ==
    \A i \in 1..Len(interventions) :
        /\ interventions[i].current_phase \in {"1", "2a", "2b", "3", "4"}
        /\ interventions[i].insert_system_prompt = MarkerOf(interventions[i].current_phase)


\* The instruction block of a phase, for the emotion, trigger and
\* strategies stored in the row.
BlockOfPhase(row, phase) ==
    CASE phase = "1" -> initial_system_prompt
      [] phase = "2a" -> NextBlock(row, "1")
      [] phase = "2b" -> NextBlock(row, "2a")
      [] phase = "3" -> NextBlock(row, "2b")

\* C33: a non-command message of a session in phase 1, 2a, 2b or 3 whose
\* client history holds no system message is handed to the completion with
\* the instruction block of the current phase as a system message, and
\* with no other system message.
C33_CurrentBlockEveryTurn ==
    [][ \A r \in Reqs :
          ( /\ req[r].pc = "loaded" /\ ~req[r].cmd /\ req'[r].pc = "idle"
            /\ req[r].snap.current_phase \in {"1", "2a", "2b", "3"}
            /\ ~HasSystem(req[r].history)
            /\ outbound'.completion # "none" )
          => LET row == interventions[req[r].idx]
                 sent == outbound'.messages
             IN  { sent[i].content : i \in SystemAt(sent) }
                   = { BlockOfPhase(row, row.current_phase) } ]_vars


\* C34: the stored current_phase of a session never goes back in the order
\* 1 < 2a < 2b < 3 < 4, also when requests of one session interleave: a
\* command that loaded the record in an earlier phase and commits late
\* does not write an earlier phase over a later one.
C34_PhaseNeverDecreases ==
    [][ \A i \in 1..Len(interventions) :
          Rank(interventions'[i].current_phase)
            >= Rank(interventions[i].current_phase) ]_vars


\* A request that validation turns away: it names no participant, or it
\* continues a session and names no intervention.
Invalid(response) ==
    response.participant_id = NULL \/ response.intervention_id = 0

\* C35: a request without participant_id, and an ongoing-session request
\* without intervention_id, is answered with status 400 and an error, and
\* the step that answers 400 creates no record, changes no record, starts
\* no request processing and calls no collaborator.
C35_RejectionChangesNothing ==
    [][ /\ (last' # last /\ Invalid(last')) => last'.status = 400
        /\ (last'.status = 400 /\ req' = req)
             => /\ Invalid(last')
                /\ last'.body = "error"
                /\ interventions' = interventions
                /\ outbound' = NoCalls ]_vars

\* C35 witness: an ongoing-session request without intervention_id was
\* rejected while the participant's session is stored in phase 2a.
C35_RejectedWithStoredSession ==
    /\ last.status = 400
    /\ last.participant_id \in Participants
    /\ last.intervention_id = 0
    /\ outbound = NoCalls
    /\ \E i \in 1..Len(interventions) :
          /\ interventions[i].participant_id = last.participant_id
          /\ interventions[i].current_phase = "2a"


\* The intervention ids stored for one participant.
IdsOf(tbl, pid) ==
    { tbl[i].intervention_id : i \in { j \in 1..Len(tbl) : tbl[j].participant_id = pid } }

\* The highest of a set of ids, 0 for none.
Highest(ids) ==
    IF ids = {} THEN 0 ELSE CHOOSE m \in ids : \A n \in ids : n <= m

\* C36: with requests handled one at a time, the creation step of a
\* new-session request adds exactly one record, whose intervention_id is
\* the participant's highest stored id plus one (1 when there is none), in
\* phase 1 with marker 'initial', and leaves every stored record as it was;
\* the new id is therefore none of the participant's stored ids.
C36_NewSessionAddsOneRecord ==
    [][ \A r \in Reqs :
          (req[r].pc = "create" /\ ~req[r].recovery /\ req'[r] # req[r])
          => LET pid == req[r].participant_id
                 n == Len(interventions)
             IN  /\ req'[r].pc = "created"
                 /\ Len(interventions') = n + 1
                 /\ \A i \in 1..n : interventions'[i] = interventions[i]
                 /\ interventions'[n + 1].participant_id = pid
                 /\ interventions'[n + 1].intervention_id
                      = Highest(IdsOf(interventions, pid)) + 1
                 /\ interventions'[n + 1].intervention_id \notin IdsOf(interventions, pid)
                 /\ interventions'[n + 1].current_phase = "1"
                 /\ interventions'[n + 1].insert_system_prompt = "initial" ]_vars

\* C36 witness: beside another participant's session, the participant has
\* a single stored session with id 2, past phase 1, and the new-session
\* request just created the session with id 3.
C36_ThirdIdAfterSecond ==
    /\ Len(interventions) = 3
    /\ interventions[1].participant_id = Neighbour
    /\ interventions[2].participant_id = "p1"
    /\ interventions[2].intervention_id = 2
    /\ interventions[2].current_phase = "2a"
    /\ interventions[3].participant_id = "p1"
    /\ interventions[3].intervention_id = 3
    /\ \E r \in Reqs : req[r].pc = "created" /\ ~req[r].recovery

====
